---- MODULE Spec2Model ----
(***************************************************************************)
(* Markdown-notes backend (src/backend/cmd/server/main.go): the session    *)
(* store and the session gate, the notes handlers behind the gate, and the *)
(* schema migrator that runs at process start.                             *)
(*                                                                         *)
(* Strings are sequences of one-character strings, so that trimming,       *)
(* suffix tests and lexicographic comparison are computed, not assumed.    *)
(* Time is a natural-number clock shared by the server and the database.   *)
(***************************************************************************)
EXTENDS Integers, Sequences, FiniteSets, TLC

VARIABLES
    now,          \* the clock read by time.Now() and by SQL NOW()
    sessions,     \* table sessions: set of rows [id, token, created_at, expires_at]
    rngUsed,      \* tokens crypto/rand has already produced (256-bit values do not repeat)
    noteUuids,    \* number of uuid.New() calls made for notes (every call yields a fresh id)
    notes,        \* table notes: set of rows
    inflight,     \* /notes requests that passed requireSession and wait for their handler
    resp,         \* the latest request: the request, the outcome of its last storage
                  \* statement ("none", "ok", "error") and its response so far
    dir,          \* entries of the migrations directory
    ledgerTable,  \* TRUE once schema_migrations exists
    ledger,       \* committed rows of schema_migrations (names)
    schema,       \* how many times each file's schema change has been committed
    mig,          \* the migrator process: program counter and locals
    editor        \* the browser's NotesWorkspace: draft, dirty flag, autosave timer and calls

authVars == <<now, sessions, rngUsed, noteUuids, notes, inflight, resp>>
migVars == <<dir, ledgerTable, ledger, schema, mig>>
vars == <<now, sessions, rngUsed, noteUuids, notes, inflight, resp,
          dir, ledgerTable, ledger, schema, mig, editor>>

----------------------------------------------------------------------------
(* Bounds of the model *)

MaxTime == 2
MaxTokens == 2
MaxNotes == 1

----------------------------------------------------------------------------
(* Strings *)

\* unicode.IsSpace on the characters the model uses
WhiteSpace == {" ", "\t", "\n", "\r"}

RECURSIVE TrimLeft(_)
TrimLeft(s) ==
    IF s = <<>> THEN <<>>
    ELSE IF Head(s) \in WhiteSpace THEN TrimLeft(Tail(s))
    ELSE s

RECURSIVE TrimRight(_)
TrimRight(s) ==
    IF s = <<>> THEN <<>>
    ELSE IF s[Len(s)] \in WhiteSpace THEN TrimRight(SubSeq(s, 1, Len(s) - 1))
    ELSE s

\* strings.TrimSpace
TrimSpace(s) == TrimRight(TrimLeft(s))

----------------------------------------------------------------------------
(* Configuration (config.Load) *)

\* cfg.AppPassword: trimmed and non-empty
AppPassword == <<"p", "w">>

\* cfg.SessionTTL in clock ticks (SESSION_TTL_HOURS > 0)
SessionTTL == 2

----------------------------------------------------------------------------
(* Requests and responses *)

TokenChars == <<"a", "b", "c", "d", "e">>

\* the values generateSessionToken can return: URL-safe base64, no white space
Tokens == {<<TokenChars[i]>> : i \in 1..MaxTokens}

\* cookie values a client may send: blank ones, every token, every token with
\* a leading space (net/http keeps a space inside a cookie value), and a value
\* that is never issued
CookieValues ==
    {<<" ">>, <<"z">>} \cup Tokens \cup {<<" ">> \o <<TokenChars[1]>>}

\* r.Cookie(name): present = FALSE stands for http.ErrNoCookie
Cookies ==
    {[present |-> FALSE, value |-> <<>>]}
        \cup {[present |-> TRUE, value |-> v] : v \in CookieValues}

\* json.NewDecoder(r.Body).Decode(&req) of the login body: ok = FALSE is a
\* decode error; a body without the field decodes to the empty password
LoginBodies ==
    {[ok |-> FALSE, password |-> <<>>]}
        \cup {[ok |-> TRUE, password |-> p] :
                p \in {AppPassword, <<>>, <<"p">>, <<"p", "w", " ">>}}

\* writeError
ErrorBody(msg) == [kind |-> "error", msg |-> msg]

\* {"ok": true}
OkBody == [kind |-> "ok"]

\* {"authenticated": b}
AuthBody(b) == [kind |-> "session", authenticated |-> b]

NoSetCookie == [set |-> "none", value |-> <<>>]

\* setSessionCookie
SetSessionCookie(token) == [set |-> "token", value |-> token]

\* clearSessionCookie
ClearSessionCookie == [set |-> "cleared", value |-> <<>>]

\* a request and its response; by is the code that wrote the response
\* ("gate", "handler" or "auth")
Answer(req, by, exec, status, body, setCookie) ==
    [req |-> req, by |-> by, exec |-> exec, status |-> status, body |-> body,
     setCookie |-> setCookie]

NoRequest == [route |-> "none"]

\* status 0 with this body: the request is with its handler, nothing is written yet
Pending == [kind |-> "pending"]

\* the request slots of the running server
Slots == DOMAIN inflight

Idle == [pc |-> "idle"]

\* no browser has the workspace open
NoEditor == [open |-> FALSE]

----------------------------------------------------------------------------
(* Session store and session gate *)

\* a lookup without the expires_at condition
SessionExistsAnyAge(table, token) ==
    \E s \in table : s.token = token

\* SELECT EXISTS(SELECT 1 FROM sessions WHERE token = $1 AND expires_at > NOW())
\* against the given contents of the sessions table
SessionExistsIn(table, token) ==
    \E s \in table : s.token = token /\ s.expires_at > now

\* the token requireSession looks up
GateToken(cookie) == TrimSpace(cookie.value)

\* the token handleLogout deletes
LogoutToken(cookie) == cookie.value

\* the token handleSessionStatus looks up
StatusToken(cookie) == cookie.value

\* generateSessionToken: a value crypto/rand has not produced before; which
\* one is immaterial, so the unused tokens are handed out in order
generateSessionToken == <<TokenChars[Cardinality(rngUsed) + 1]>>

\* an expiry one tick later than the configured TTL
ExpiresLate == now + SessionTTL + 1

\* time.Now().Add(s.cfg.SessionTTL)
ExpiresAt == now + SessionTTL

\* the row handleLogin inserts; created_at is the column default now()
NewSession(token) ==
    [id |-> Cardinality(rngUsed) + 1, token |-> token, created_at |-> now,
     expires_at |-> ExpiresAt]

\* a comparison that trims the submitted password first
EqualAfterTrim(a, b) == TrimSpace(a) = b

\* subtle.ConstantTimeCompare(a, b) = 1
ConstantTimeEqual(a, b) == a = b

\* a delete without the WHERE clause
DeleteEverySession(token) == {}

\* a delete that removes no row
DeleteNoSession(token) == sessions

\* DELETE FROM sessions WHERE token = $1
DeleteSession(token) == {s \in sessions : s.token # token}

\* what requireSession does with a request, given the contents of the
\* sessions table: an error response, or status 0 when it calls the handler
GateOutcome(table, req, dbOk) ==
    IF ~req.cookie.present \/ TrimSpace(req.cookie.value) = <<>> THEN
        Answer(req, "gate", "none", 401, ErrorBody("unauthorized"), NoSetCookie)
    ELSE IF ~dbOk THEN
        Answer(req, "gate", "error", 500, ErrorBody("database error"), NoSetCookie)
    ELSE IF ~SessionExistsIn(table, GateToken(req.cookie)) THEN
        Answer(req, "gate", "ok", 401, ErrorBody("unauthorized"), NoSetCookie)
    ELSE
        Answer(req, "gate", "ok", 0, Pending, NoSetCookie)

\* requireSession: the middleware in front of every /notes route
RequireSession(k, req, dbOk) ==
    /\ inflight[k].pc = "idle"
    /\ resp' = GateOutcome(sessions, req, dbOk)
    /\ inflight' =
            IF GateOutcome(sessions, req, dbOk).status = 0
            THEN [inflight EXCEPT ![k] =
                    [pc |-> "authorized", req |-> req, token |-> GateToken(req.cookie)]]
            ELSE inflight
    /\ UNCHANGED <<now, sessions, rngUsed, noteUuids, notes>>

\* handleLogin
HandleLogin(body, randOk, dbOk) ==
    LET req == [route |-> "login", body |-> body] IN
    /\ IF ~body.ok THEN
            /\ resp' = Answer(req, "auth", "none", 400, ErrorBody("invalid json body"), NoSetCookie)
            /\ UNCHANGED <<sessions, rngUsed>>
       ELSE IF ~ConstantTimeEqual(body.password, AppPassword) THEN
            /\ resp' = Answer(req, "auth", "none", 401, ErrorBody("invalid password"), NoSetCookie)
            /\ UNCHANGED <<sessions, rngUsed>>
       ELSE IF ~randOk \/ rngUsed = Tokens THEN
            /\ resp' = Answer(req, "auth", "none", 500, ErrorBody("failed to create session"),
                              NoSetCookie)
            /\ UNCHANGED <<sessions, rngUsed>>
       ELSE \E token \in {generateSessionToken} :
            /\ rngUsed' = rngUsed \cup {token}
            /\ IF ~dbOk THEN
                    /\ resp' = Answer(req, "auth", "error", 500, ErrorBody("database error"),
                                      NoSetCookie)
                    /\ UNCHANGED sessions
               ELSE
                    /\ sessions' = sessions \cup {NewSession(token)}
                    /\ resp' = Answer(req, "auth", "ok", 200, OkBody, SetSessionCookie(token))
    /\ UNCHANGED <<now, noteUuids, notes, inflight>>

\* handleLogout
HandleLogout(cookie, dbOk) ==
    LET req == [route |-> "logout", cookie |-> cookie] IN
    /\ IF cookie.present /\ TrimSpace(cookie.value) # <<>> THEN
            IF dbOk THEN
                /\ sessions' = DeleteSession(LogoutToken(cookie))
                /\ resp' = Answer(req, "auth", "ok", 200, OkBody, ClearSessionCookie)
            ELSE
                /\ UNCHANGED sessions
                /\ resp' = Answer(req, "auth", "error", 200, OkBody, ClearSessionCookie)
       ELSE
            /\ UNCHANGED sessions
            /\ resp' = Answer(req, "auth", "none", 200, OkBody, ClearSessionCookie)
    /\ UNCHANGED <<now, rngUsed, noteUuids, notes, inflight>>

\* a session-status handler that clears the cookie only when the token has a row
StatusOutcomeKnownOnly(table, cookie, dbOk) ==
    LET req == [route |-> "session", cookie |-> cookie] IN
    IF ~cookie.present \/ TrimSpace(cookie.value) = <<>> THEN
        Answer(req, "auth", "none", 200, AuthBody(FALSE), NoSetCookie)
    ELSE IF ~dbOk THEN
        Answer(req, "auth", "error", 500, ErrorBody("database error"), NoSetCookie)
    ELSE IF ~SessionExistsIn(table, StatusToken(cookie)) THEN
        Answer(req, "auth", "ok", 200, AuthBody(FALSE),
               IF \E s \in table : s.token = StatusToken(cookie)
               THEN ClearSessionCookie ELSE NoSetCookie)
    ELSE
        Answer(req, "auth", "ok", 200, AuthBody(TRUE), NoSetCookie)

\* the response of handleSessionStatus, given the contents of the sessions table
StatusOutcome(table, cookie, dbOk) ==
    LET req == [route |-> "session", cookie |-> cookie] IN
    IF ~cookie.present \/ TrimSpace(cookie.value) = <<>> THEN
        Answer(req, "auth", "none", 200, AuthBody(FALSE), NoSetCookie)
    ELSE IF ~dbOk THEN
        Answer(req, "auth", "error", 500, ErrorBody("database error"), NoSetCookie)
    ELSE IF ~SessionExistsIn(table, StatusToken(cookie)) THEN
        Answer(req, "auth", "ok", 200, AuthBody(FALSE), ClearSessionCookie)
    ELSE
        Answer(req, "auth", "ok", 200, AuthBody(TRUE), NoSetCookie)

\* handleSessionStatus
HandleSessionStatus(cookie, dbOk) ==
    /\ resp' = StatusOutcome(sessions, cookie, dbOk)
    /\ UNCHANGED <<now, sessions, rngUsed, noteUuids, notes, inflight>>

\* the clock advances
Tick ==
    /\ now < MaxTime
    /\ now' = now + 1
    /\ UNCHANGED <<sessions, rngUsed, noteUuids, notes, inflight, resp>>

----------------------------------------------------------------------------
(* Notes: pure helpers *)

\* strings.ToLower on the characters the model uses
LowerChar(c) ==
    CASE c = "A" -> "a"
      [] c = "B" -> "b"
      [] c = "T" -> "t"
      [] OTHER -> c

ToLower(s) == [i \in 1..Len(s) |-> LowerChar(s[i])]

\* the tag length sanitizeTags truncates to
MaxTagLen == 32

\* a loop body that does not truncate
CleanTagWhole(tag) == ToLower(TrimSpace(tag))

\* the loop body of sanitizeTags for one tag, before the duplicate test
CleanTag(tag) ==
    LET t == ToLower(TrimSpace(tag)) IN
    IF Len(t) > MaxTagLen THEN SubSeq(t, 1, MaxTagLen) ELSE t

RECURSIVE SanitizeLoop(_, _)
SanitizeLoop(tags, clean) ==
    IF tags = <<>> THEN clean
    ELSE LET t == CleanTag(Head(tags)) IN
         IF ToLower(TrimSpace(Head(tags))) = <<>> THEN SanitizeLoop(Tail(tags), clean)
         ELSE IF \E i \in 1..Len(clean) : clean[i] = t THEN SanitizeLoop(Tail(tags), clean)
         ELSE SanitizeLoop(Tail(tags), Append(clean, t))

\* sanitizeTags
sanitizeTags(tags) == SanitizeLoop(tags, <<>>)

\* title := strings.TrimSpace(req.Title); if title == "" { title = "Untitled" }
Untitled == <<"U", "n", "t", "i", "t", "l", "e", "d">>

\* a title that is trimmed and nothing else
TrimmedTitle(title) == TrimSpace(title)

NormalizeTitle(title) ==
    IF TrimSpace(title) = <<>> THEN Untitled ELSE TrimSpace(title)

\* width of the Go int, scaled down so that products stay inside TLC's integers
IntBits == 16

MaxInt == 2 ^ (IntBits - 1) - 1

MinInt == 0 - 2 ^ (IntBits - 1)

\* two's-complement wrap-around of an int result
WrapInt(n) == ((n - MinInt) % (2 ^ IntBits)) + MinInt

Digits == <<"0", "1", "2", "3", "4", "5", "6", "7", "8", "9">>

IsDigit(c) == \E d \in 1..10 : Digits[d] = c

DigitValue(c) == (CHOOSE d \in 1..10 : Digits[d] = c) - 1

\* the decimal value of a digit string, saturating just above the int range
RECURSIVE DecimalValue(_)
DecimalValue(ds) ==
    IF ds = <<>> THEN 0
    ELSE LET v == 10 * DecimalValue(SubSeq(ds, 1, Len(ds) - 1)) + DigitValue(ds[Len(ds)])
         IN  IF v > MaxInt + 2 THEN MaxInt + 2 ELSE v

\* strconv.Atoi: [ok, value]; ok = FALSE for syntax and range errors
Atoi(raw) ==
    LET signed == raw # <<>> /\ Head(raw) \in {"+", "-"}
        ds == IF signed THEN Tail(raw) ELSE raw
        wellFormed == ds # <<>> /\ \A i \in 1..Len(ds) : IsDigit(ds[i])
        magnitude == IF wellFormed THEN DecimalValue(ds) ELSE 0
        value == IF signed /\ Head(raw) = "-" THEN 0 - magnitude ELSE magnitude
    IN  IF wellFormed /\ value >= MinInt /\ value <= MaxInt
        THEN [ok |-> TRUE, value |-> value]
        ELSE [ok |-> FALSE, value |-> 0]

\* parsePositiveInt
parsePositiveInt(raw, fallback) ==
    IF raw = <<>> THEN fallback
    ELSE IF ~Atoi(raw).ok \/ Atoi(raw).value <= 0 THEN fallback
    ELSE Atoi(raw).value

DefaultPage == 1

DefaultLimit == 30

MaxLimit == 100

\* strconv.ParseBool: [ok, value]
ParseBool(raw) ==
    IF raw \in {<<"1">>, <<"t">>, <<"T">>, <<"t", "r", "u", "e">>,
                <<"T", "R", "U", "E">>, <<"T", "r", "u", "e">>}
    THEN [ok |-> TRUE, value |-> TRUE]
    ELSE IF raw \in {<<"0">>, <<"f">>, <<"F">>, <<"f", "a", "l", "s", "e">>,
                     <<"F", "A", "L", "S", "E">>, <<"F", "a", "l", "s", "e">>}
    THEN [ok |-> TRUE, value |-> FALSE]
    ELSE [ok |-> FALSE, value |-> FALSE]

\* SQL LIKE: % matches any run, _ any one character, \ quotes the next one
RECURSIVE LikeMatch(_, _)
LikeMatch(p, s) ==
    IF p = <<>> THEN s = <<>>
    ELSE IF Head(p) = "%" THEN
        LikeMatch(Tail(p), s) \/ (s # <<>> /\ LikeMatch(p, Tail(s)))
    ELSE IF Head(p) = "_" THEN
        s # <<>> /\ LikeMatch(Tail(p), Tail(s))
    ELSE IF Head(p) = "\\" THEN
        /\ Len(p) >= 2
        /\ s # <<>>
        /\ p[2] = Head(s)
        /\ LikeMatch(SubSeq(p, 3, Len(p)), Tail(s))
    ELSE s # <<>> /\ Head(p) = Head(s) /\ LikeMatch(Tail(p), Tail(s))

\* text ILIKE '%' || q || '%'
ILikeContains(text, q) == LikeMatch(ToLower(<<"%">> \o q \o <<"%">>), ToLower(text))

\* a WHERE clause in which an empty tag matches no note
FilterMatchesTagOnly(n, query, tag, favorite) ==
    /\ (query = <<>> \/ ILikeContains(n.title, query) \/ ILikeContains(n.content, query))
    /\ (\E i \in 1..Len(n.tags) : n.tags[i] = tag)
    /\ (~favorite.set \/ n.is_favorite = favorite.value)

\* the WHERE clause shared by the count query and the page query; favorite is
\* [set, value], set = FALSE standing for SQL NULL
FilterMatches(n, query, tag, favorite) ==
    /\ (query = <<>> \/ ILikeContains(n.title, query) \/ ILikeContains(n.content, query))
    /\ (tag = <<>> \/ \E i \in 1..Len(n.tags) : n.tags[i] = tag)
    /\ (~favorite.set \/ n.is_favorite = favorite.value)

\* any order of the rows
OrderedAnyhow(rows) ==
    {ord \in [1..Cardinality(rows) -> rows] :
        \A i, j \in 1..Cardinality(rows) : i # j => ord[i] # ord[j]}

\* the orders ORDER BY updated_at DESC may return a set of rows in: rows with
\* equal updated_at come in any order
OrderedByUpdatedDesc(rows) ==
    {ord \in [1..Cardinality(rows) -> rows] :
        /\ \A i, j \in 1..Cardinality(rows) : i # j => ord[i] # ord[j]
        /\ \A i, j \in 1..Cardinality(rows) :
                i < j => ord[i].updated_at >= ord[j].updated_at}

\* LIMIT limit OFFSET offset of an ordered result
LimitOffset(ord, limit, offset) ==
    SubSeq(ord, offset + 1, IF offset + limit < Len(ord) THEN offset + limit ELSE Len(ord))

----------------------------------------------------------------------------
(* Notes: handlers behind the session gate *)

NoteRoutes == {"list", "create", "get", "update", "delete", "favorite"}

\* the note as encoded in a response
NoteBody(n) == [kind |-> "note", note |-> n]

\* the handler of slot k answers and the request is over
Finish(k, exec, status, body) ==
    /\ resp' = Answer(inflight[k].req, "handler", exec, status, body, NoSetCookie)
    /\ inflight' = [inflight EXCEPT ![k] = Idle]

Authorized(k, route) ==
    inflight[k].pc = "authorized" /\ inflight[k].req.route = route

\* a lookup that makes up an empty note when there is none
NoteByIdOrNew(id) ==
    IF {n \in notes : n.id = id} = {}
    THEN {[id |-> id, title |-> Untitled, content |-> <<>>, tags |-> <<>>,
           is_favorite |-> FALSE, created_at |-> now, updated_at |-> now]}
    ELSE {n \in notes : n.id = id}

\* SELECT ... FROM notes WHERE id = $1
NoteById(id) == {n \in notes : n.id = id}

\* the filter of a list request: trimmed query and tag, parsed favorite
ListFilter(req) ==
    LET favoriteRaw == TrimSpace(req.favorite) IN
    [query |-> TrimSpace(req.query),
     tag |-> TrimSpace(req.tag),
     favoriteOk |-> favoriteRaw = <<>> \/ ParseBool(favoriteRaw).ok,
     favorite |-> [set |-> favoriteRaw # <<>>, value |-> ParseBool(favoriteRaw).value]]

ListPageNo(req) == parsePositiveInt(req.page, DefaultPage)

\* a limit without the cap
ListLimitUncapped(req) == parsePositiveInt(req.limit, DefaultLimit)

ListLimit(req) ==
    IF parsePositiveInt(req.limit, DefaultLimit) > MaxLimit THEN MaxLimit
    ELSE parsePositiveInt(req.limit, DefaultLimit)

\* offset := (page - 1) * limit
ListOffset(req) == WrapInt((ListPageNo(req) - 1) * ListLimit(req))

\* a WHERE clause that selects every row
MatchingUnfiltered(req) == notes

\* the rows the WHERE clause of a list request selects
Matching(req) ==
    {n \in notes : FilterMatches(n, ListFilter(req).query, ListFilter(req).tag,
                                 ListFilter(req).favorite)}

\* handleListNotes up to and including the count query
HandleListCount(k, dbOk) ==
    /\ Authorized(k, "list")
    /\ LET req == inflight[k].req IN
       IF ~ListFilter(req).favoriteOk THEN
            Finish(k, "none", 400, ErrorBody("favorite must be true or false"))
       ELSE IF ~dbOk THEN
            Finish(k, "error", 500, ErrorBody("database error"))
       ELSE
            /\ inflight' = [inflight EXCEPT ![k] =
                    [pc |-> "counted", req |-> req, token |-> inflight[k].token,
                     total |-> Cardinality(Matching(req))]]
            /\ UNCHANGED resp
    /\ UNCHANGED <<now, sessions, rngUsed, noteUuids, notes>>

\* handleListNotes from the page query on; a negative OFFSET is an SQL error
HandleListPage(k, dbOk) ==
    /\ inflight[k].pc = "counted"
    /\ LET req == inflight[k].req IN
       IF ~dbOk \/ ListOffset(req) < 0 THEN
            Finish(k, "error", 500, ErrorBody("database error"))
       ELSE \E ord \in OrderedByUpdatedDesc(Matching(req)) :
            Finish(k, "ok", 200,
                   [kind |-> "list",
                    items |-> LimitOffset(ord, ListLimit(req), ListOffset(req)),
                    page |-> ListPageNo(req),
                    limit |-> ListLimit(req),
                    total |-> inflight[k].total])
    /\ UNCHANGED <<now, sessions, rngUsed, noteUuids, notes>>

\* handleGetNote
HandleGetNote(k, dbOk) ==
    /\ Authorized(k, "get")
    /\ LET req == inflight[k].req IN
       IF ~req.id.ok THEN Finish(k, "none", 400, ErrorBody("invalid id"))
       ELSE IF ~dbOk THEN Finish(k, "error", 500, ErrorBody("database error"))
       ELSE IF NoteById(req.id.uuid) = {} THEN
            Finish(k, "ok", 404, ErrorBody("note not found"))
       ELSE \E n \in NoteById(req.id.uuid) : Finish(k, "ok", 200, NoteBody(n))
    /\ UNCHANGED <<now, sessions, rngUsed, noteUuids, notes>>

\* an insert that trims the content as it trims the title
NewNoteTrimmed(body) ==
    [id |-> noteUuids + 1,
     title |-> NormalizeTitle(body.title),
     content |-> TrimSpace(body.content),
     tags |-> sanitizeTags(body.tags),
     is_favorite |-> body.is_favorite,
     created_at |-> now,
     updated_at |-> now]

\* the row INSERT INTO notes ... RETURNING yields; both timestamps are the
\* column default now()
NewNote(body) ==
    [id |-> noteUuids + 1,
     title |-> NormalizeTitle(body.title),
     content |-> body.content,
     tags |-> sanitizeTags(body.tags),
     is_favorite |-> body.is_favorite,
     created_at |-> now,
     updated_at |-> now]

\* handleCreateNote
HandleCreateNote(k, dbOk) ==
    /\ Authorized(k, "create")
    /\ LET req == inflight[k].req IN
       IF ~req.body.ok THEN
            /\ Finish(k, "none", 400, ErrorBody("invalid json body"))
            /\ UNCHANGED <<noteUuids, notes>>
       ELSE
            /\ noteUuids' = noteUuids + 1
            /\ IF ~dbOk THEN
                    /\ Finish(k, "error", 500, ErrorBody("database error"))
                    /\ UNCHANGED notes
               ELSE
                    /\ notes' = notes \cup {NewNote(req.body)}
                    /\ Finish(k, "ok", 201, NoteBody(NewNote(req.body)))
    /\ UNCHANGED <<now, sessions, rngUsed>>

\* an update that keeps the tags of a note that has some
UpdatedNoteKeepsTags(n, body) ==
    [n EXCEPT !.title = NormalizeTitle(body.title),
              !.content = body.content,
              !.tags = IF n.tags = <<>> THEN sanitizeTags(body.tags) ELSE n.tags,
              !.is_favorite = body.is_favorite,
              !.updated_at = now]

\* the row UPDATE notes SET title, content, tags, is_favorite, updated_at = NOW()
\* leaves in place of n
UpdatedNote(n, body) ==
    [n EXCEPT !.title = NormalizeTitle(body.title),
              !.content = body.content,
              !.tags = sanitizeTags(body.tags),
              !.is_favorite = body.is_favorite,
              !.updated_at = now]

\* handleUpdateNote
HandleUpdateNote(k, dbOk) ==
    /\ Authorized(k, "update")
    /\ LET req == inflight[k].req IN
       IF ~req.id.ok THEN
            /\ Finish(k, "none", 400, ErrorBody("invalid id"))
            /\ UNCHANGED notes
       ELSE IF ~req.body.ok THEN
            /\ Finish(k, "none", 400, ErrorBody("invalid json body"))
            /\ UNCHANGED notes
       ELSE IF ~dbOk THEN
            /\ Finish(k, "error", 500, ErrorBody("database error"))
            /\ UNCHANGED notes
       ELSE IF NoteById(req.id.uuid) = {} THEN
            /\ Finish(k, "ok", 404, ErrorBody("note not found"))
            /\ UNCHANGED notes
       ELSE \E n \in NoteById(req.id.uuid) :
            /\ notes' = (notes \ {n}) \cup {UpdatedNote(n, req.body)}
            /\ Finish(k, "ok", 200, NoteBody(UpdatedNote(n, req.body)))
    /\ UNCHANGED <<now, sessions, rngUsed, noteUuids>>

\* handleDeleteNote
HandleDeleteNote(k, dbOk) ==
    /\ Authorized(k, "delete")
    /\ LET req == inflight[k].req IN
       IF ~req.id.ok THEN
            /\ Finish(k, "none", 400, ErrorBody("invalid id"))
            /\ UNCHANGED notes
       ELSE IF ~dbOk THEN
            /\ Finish(k, "error", 500, ErrorBody("database error"))
            /\ UNCHANGED notes
       ELSE IF NoteById(req.id.uuid) = {} THEN
            /\ Finish(k, "ok", 404, ErrorBody("note not found"))
            /\ UNCHANGED notes
       ELSE
            /\ notes' = notes \ NoteById(req.id.uuid)
            /\ Finish(k, "ok", 204, [kind |-> "empty"])
    /\ UNCHANGED <<now, sessions, rngUsed, noteUuids>>

\* an update of the flag that sets both timestamps
FavoritedNoteRestamped(n, value) ==
    [n EXCEPT !.is_favorite = value, !.updated_at = now, !.created_at = now]

\* an update of the flag that leaves updated_at alone
FavoritedNoteSameTime(n, value) == [n EXCEPT !.is_favorite = value]

\* the row UPDATE notes SET is_favorite = $2, updated_at = NOW() leaves in place of n
FavoritedNote(n, value) ==
    [n EXCEPT !.is_favorite = value, !.updated_at = now]

\* handleFavoriteNote
HandleFavoriteNote(k, dbOk) ==
    /\ Authorized(k, "favorite")
    /\ LET req == inflight[k].req IN
       IF ~req.id.ok THEN
            /\ Finish(k, "none", 400, ErrorBody("invalid id"))
            /\ UNCHANGED notes
       ELSE IF ~req.body.ok THEN
            /\ Finish(k, "none", 400, ErrorBody("invalid json body"))
            /\ UNCHANGED notes
       ELSE IF ~dbOk THEN
            /\ Finish(k, "error", 500, ErrorBody("database error"))
            /\ UNCHANGED notes
       ELSE IF NoteById(req.id.uuid) = {} THEN
            /\ Finish(k, "ok", 404, ErrorBody("note not found"))
            /\ UNCHANGED notes
       ELSE \E n \in NoteById(req.id.uuid) :
            /\ notes' = (notes \ {n}) \cup {FavoritedNote(n, req.body.value)}
            /\ Finish(k, "ok", 200, NoteBody(FavoritedNote(n, req.body.value)))
    /\ UNCHANGED <<now, sessions, rngUsed, noteUuids>>

----------------------------------------------------------------------------
(* Schema migrator (runMigrations) *)

\* byte values of the characters file names are made of
ByteOf(c) ==
    CASE c = "." -> 46
      [] c = "0" -> 48
      [] c = "1" -> 49
      [] c = "2" -> 50
      [] c = "3" -> 51
      [] c = "a" -> 97
      [] c = "b" -> 98
      [] c = "k" -> 107
      [] c = "l" -> 108
      [] c = "q" -> 113
      [] c = "s" -> 115
      [] OTHER -> 0

\* a < b for Go strings: bytewise lexicographic order
RECURSIVE StrLess(_, _)
StrLess(a, b) ==
    IF b = <<>> THEN FALSE
    ELSE IF a = <<>> THEN TRUE
    ELSE IF ByteOf(Head(a)) # ByteOf(Head(b)) THEN ByteOf(Head(a)) < ByteOf(Head(b))
    ELSE StrLess(Tail(a), Tail(b))

\* a sort that puts shorter names first
RECURSIVE ShortestFirst(_)
ShortestFirst(S) ==
    IF S = {} THEN <<>>
    ELSE LET least == CHOOSE x \in S : \A y \in S :
                        \/ x = y
                        \/ Len(x) < Len(y)
                        \/ Len(x) = Len(y) /\ StrLess(x, y)
         IN  <<least>> \o ShortestFirst(S \ {least})

\* sort.Strings on a list without duplicates
RECURSIVE SortStrings(_)
SortStrings(S) ==
    IF S = {} THEN <<>>
    ELSE LET least == CHOOSE x \in S : \A y \in S : x = y \/ StrLess(x, y)
         IN  <<least>> \o SortStrings(S \ {least})

\* strings.HasSuffix
HasSuffix(s, suffix) ==
    Len(s) >= Len(suffix) /\ SubSeq(s, Len(s) - Len(suffix) + 1, Len(s)) = suffix

SqlSuffix == <<".", "s", "q", "l">>

\* the names runMigrations collects from os.ReadDir and sorts
MigrationNames(entries) ==
    SortStrings({e.name : e \in {f \in entries : ~f.isDir /\ HasSuffix(f.name, SqlSuffix)}})

\* what the migrations directory may hold: 10.sql sorts before 2.sql, 2.sql.bak
\* has another suffix, 3.sql is a directory
DirEntries ==
    {[name |-> <<"1", "0", ".", "s", "q", "l">>, isDir |-> FALSE],
     [name |-> <<"2", ".", "s", "q", "l">>, isDir |-> FALSE],
     [name |-> <<"1", ".", "s", "q", "l">>, isDir |-> FALSE],
     [name |-> <<"2", ".", "s", "q", "l", ".", "b", "a", "k">>, isDir |-> FALSE],
     [name |-> <<"3", ".", "s", "q", "l">>, isDir |-> TRUE]}

\* SELECT EXISTS(SELECT 1 FROM schema_migrations WHERE name = $1)
LedgerHas(name) == \E row \in ledger : row.name = name

\* the row INSERT INTO schema_migrations (name) VALUES ($1) adds; applied_at
\* is the column default NOW()
LedgerRow(name) == [name |-> name, applied_at |-> now]

NoTx == [open |-> FALSE, schema |-> {}, ledger |-> {}]

\* a process that is not running; executed and ledgerAtStart record, for the
\* current run, the files whose contents were executed and the ledger names
\* found at the start
MigStopped ==
    [pc |-> "stopped", names |-> <<>>, i |-> 1, tx |-> NoTx,
     executed |-> <<>>, ledgerAtStart |-> {}]

Procs == DOMAIN mig

\* the file the loop of runMigrations is at
CurrentName(p) == mig[p].names[mig[p].i]

\* return fmt.Errorf(...): New fails, main calls log.Fatalf
Fail(p) == mig' = [mig EXCEPT ![p].pc = "failed", ![p].tx = NoTx]

\* continue with the next name, or return nil after the last one
NextName(p) ==
    mig' = [mig EXCEPT ![p].i = mig[p].i + 1,
                       ![p].tx = NoTx,
                       ![p].pc = IF mig[p].i + 1 > Len(mig[p].names)
                                 THEN "done" ELSE "check"]

\* a process start: main -> app.New -> runMigrations
StartProcess(p) ==
    /\ mig[p].pc \in {"stopped", "done", "failed"}
    /\ mig' = [mig EXCEPT ![p] = [MigStopped EXCEPT !.pc = "ensure",
                        !.ledgerAtStart = {row.name : row \in ledger}]]
    /\ UNCHANGED <<dir, ledgerTable, ledger, schema>>

\* ensureMigrationsTable: CREATE TABLE IF NOT EXISTS schema_migrations
EnsureMigrationsTable(p, dbOk) ==
    /\ mig[p].pc = "ensure"
    /\ IF dbOk THEN
            /\ ledgerTable' = TRUE
            /\ mig' = [mig EXCEPT ![p].pc = "readdir"]
       ELSE
            /\ Fail(p)
            /\ UNCHANGED ledgerTable
    /\ UNCHANGED <<dir, ledger, schema>>

\* os.ReadDir, the suffix filter and sort.Strings
ReadDir(p, ioOk) ==
    /\ mig[p].pc = "readdir"
    /\ IF ioOk THEN
            mig' = [mig EXCEPT ![p].names = MigrationNames(dir),
                               ![p].i = 1,
                               ![p].pc = IF MigrationNames(dir) = <<>>
                                         THEN "done" ELSE "check"]
       ELSE Fail(p)
    /\ UNCHANGED <<dir, ledgerTable, ledger, schema>>

\* a lookup that never finds the name
NeverApplied(name) == FALSE

\* the result of the ledger lookup at the head of the loop
AlreadyApplied(name) == LedgerHas(name)

\* the ledger lookup at the head of the loop: skip the file or go on to apply it
CheckApplied(p, dbOk) ==
    /\ mig[p].pc = "check"
    /\ IF ~dbOk THEN Fail(p)
       ELSE IF AlreadyApplied(CurrentName(p)) THEN NextName(p)
       ELSE mig' = [mig EXCEPT ![p].pc = "readfile"]
    /\ UNCHANGED <<dir, ledgerTable, ledger, schema>>

\* os.ReadFile
ReadFile(p, ioOk) ==
    /\ mig[p].pc = "readfile"
    /\ IF ioOk THEN mig' = [mig EXCEPT ![p].pc = "begin"] ELSE Fail(p)
    /\ UNCHANGED <<dir, ledgerTable, ledger, schema>>

\* db.Begin
BeginTx(p, dbOk) ==
    /\ mig[p].pc = "begin"
    /\ IF dbOk THEN
            mig' = [mig EXCEPT ![p].pc = "exec", ![p].tx = [NoTx EXCEPT !.open = TRUE]]
       ELSE Fail(p)
    /\ UNCHANGED <<dir, ledgerTable, ledger, schema>>

\* tx.Exec(ctx, string(content)); on error tx.Rollback
ExecContent(p, dbOk) ==
    /\ mig[p].pc = "exec"
    /\ IF dbOk THEN
            mig' = [mig EXCEPT ![p].pc = "insert",
                               ![p].tx.schema = {CurrentName(p)},
                               ![p].executed = Append(mig[p].executed, CurrentName(p))]
       ELSE
            mig' = [mig EXCEPT ![p].pc = "failed", ![p].tx = NoTx,
                               ![p].executed = Append(mig[p].executed, CurrentName(p))]
    /\ UNCHANGED <<dir, ledgerTable, ledger, schema>>

\* a primary key that makes no insert wait
NoPendingInsert(p, name) == FALSE

\* another process has inserted the name in a transaction that is still
\* open: an insert of the same primary key waits for that transaction to end
PendingInsert(p, name) ==
    \E q \in Procs \ {p} :
        mig[q].tx.open /\ \E row \in mig[q].tx.ledger : row.name = name

\* tx.Exec(ctx, INSERT INTO schema_migrations ...); name is the primary key;
\* on error tx.Rollback
InsertLedger(p, dbOk) ==
    /\ mig[p].pc = "insert"
    /\ dbOk => ~PendingInsert(p, CurrentName(p))
    /\ IF dbOk /\ ~LedgerHas(CurrentName(p)) THEN
            mig' = [mig EXCEPT ![p].pc = "commit",
                               ![p].tx.ledger = {LedgerRow(CurrentName(p))}]
       ELSE Fail(p)
    /\ UNCHANGED <<dir, ledgerTable, ledger, schema>>

\* the schema after a transaction's statements are committed
CommitSchema(tx) ==
    [n \in DOMAIN schema \cup tx.schema |->
        (IF n \in DOMAIN schema THEN schema[n] ELSE 0) + (IF n \in tx.schema THEN 1 ELSE 0)]

\* a commit that leaves the ledger insert out
CommitWithoutLedger(tx) == ledger

\* the ledger after a transaction's statements are committed
CommitLedger(tx) == ledger \cup tx.ledger

\* tx.Commit: everything the transaction did becomes visible at once, or
\* nothing does
CommitTx(p, dbOk) ==
    /\ mig[p].pc = "commit"
    /\ IF dbOk THEN
            /\ schema' = CommitSchema(mig[p].tx)
            /\ ledger' = CommitLedger(mig[p].tx)
            /\ NextName(p)
       ELSE
            /\ Fail(p)
            /\ UNCHANGED <<schema, ledger>>
    /\ UNCHANGED <<dir, ledgerTable>>

\* a deployment puts another entry into the migrations directory while no
\* migrator runs
AddEntry(e) ==
    /\ \A p \in Procs : mig[p].pc \in {"stopped", "done", "failed"}
    /\ e \notin dir
    /\ \A f \in dir : f.name # e.name
    /\ dir' = dir \cup {e}
    /\ UNCHANGED <<ledgerTable, ledger, schema, mig>>

\* before the first process start: an empty store, an empty directory
MigInit ==
    /\ now = 0
    /\ sessions = {}
    /\ rngUsed = {}
    /\ noteUuids = 0
    /\ notes = {}
    /\ inflight = [k \in {1} |-> Idle]
    /\ resp = Answer(NoRequest, "none", "none", 0, [kind |-> "none"], NoSetCookie)
    /\ dir = {}
    /\ ledgerTable = FALSE
    /\ ledger = {}
    /\ schema = <<>>
    /\ mig = [p \in {1} |-> MigStopped]
    /\ editor = NoEditor

MigNext ==
    \/ \E p \in Procs : StartProcess(p) /\ UNCHANGED <<authVars, editor>>
    \/ \E p \in Procs, dbOk \in BOOLEAN : EnsureMigrationsTable(p, dbOk) /\ UNCHANGED <<authVars, editor>>
    \/ \E p \in Procs, ioOk \in BOOLEAN : ReadDir(p, ioOk) /\ UNCHANGED <<authVars, editor>>
    \/ \E p \in Procs, dbOk \in BOOLEAN : CheckApplied(p, dbOk) /\ UNCHANGED <<authVars, editor>>
    \/ \E p \in Procs, ioOk \in BOOLEAN : ReadFile(p, ioOk) /\ UNCHANGED <<authVars, editor>>
    \/ \E p \in Procs, dbOk \in BOOLEAN : BeginTx(p, dbOk) /\ UNCHANGED <<authVars, editor>>
    \/ \E p \in Procs, dbOk \in BOOLEAN : ExecContent(p, dbOk) /\ UNCHANGED <<authVars, editor>>
    \/ \E p \in Procs, dbOk \in BOOLEAN : InsertLedger(p, dbOk) /\ UNCHANGED <<authVars, editor>>
    \/ \E p \in Procs, dbOk \in BOOLEAN : CommitTx(p, dbOk) /\ UNCHANGED <<authVars, editor>>
    \/ \E e \in DirEntries : AddEntry(e) /\ UNCHANGED <<authVars, editor>>

\* the migrator alone: process starts, one after the other, against one store
SpecMig == MigInit /\ [][MigNext]_vars

----------------------------------------------------------------------------
(* The session store and the session gate under client requests *)

\* chi.URLParam + uuid.Parse: ok = FALSE is a malformed id
IdParams ==
    {[ok |-> FALSE, uuid |-> 0]} \cup {[ok |-> TRUE, uuid |-> i] : i \in 1..MaxNotes}

GateIds == {[ok |-> TRUE, uuid |-> i] : i \in 1..MaxNotes}

BadJson == [ok |-> FALSE]

GateNoteBodies ==
    {[ok |-> TRUE, title |-> <<" ">>, content |-> <<"x">>,
      tags |-> << <<"A">>, <<"a">> >>, is_favorite |-> FALSE]}

GateFavoriteBodies == {[ok |-> TRUE, value |-> TRUE]}

GateListRequests(cookie) ==
    {[route |-> "list", cookie |-> cookie, query |-> <<>>, tag |-> <<>>,
      favorite |-> f, page |-> <<>>, limit |-> <<>>] : f \in {<<>>}}

\* the /notes requests a client holding the cookie may send
GateNoteRequests(cookie) ==
    GateListRequests(cookie)
        \cup {[route |-> "create", cookie |-> cookie, body |-> b] : b \in GateNoteBodies}
        \cup {[route |-> r, cookie |-> cookie, id |-> i] :
                r \in {"get", "delete"}, i \in GateIds}
        \cup {[route |-> "update", cookie |-> cookie, id |-> i, body |-> b] :
                i \in GateIds, b \in GateNoteBodies}
        \cup {[route |-> "favorite", cookie |-> cookie, id |-> i, body |-> b] :
                i \in GateIds, b \in GateFavoriteBodies}

\* creates still allowed by the bound on the number of notes
CreatesInFlight ==
    Cardinality({k \in Slots : inflight[k].pc # "idle" /\ inflight[k].req.route = "create"})

Admissible(req) ==
    req.route = "create" => noteUuids + CreatesInFlight < MaxNotes

\* the migration that creates the notes and sessions tables
InitSql == [name |-> <<"1", ".", "s", "q", "l">>, isDir |-> FALSE]

\* a server that has just started on a fresh store: the migrator has applied
\* the initial migration, the sessions and notes tables are empty
Init ==
    /\ now = 0
    /\ sessions = {}
    /\ rngUsed = {}
    /\ noteUuids = 0
    /\ notes = {}
    /\ inflight = [k \in {1} |-> Idle]
    /\ resp = Answer(NoRequest, "none", "none", 0, [kind |-> "none"], NoSetCookie)
    /\ dir = {InitSql}
    /\ ledgerTable = TRUE
    /\ ledger = {[name |-> InitSql.name, applied_at |-> 0]}
    /\ schema = (InitSql.name :> 1)
    /\ mig = [p \in {1} |-> [MigStopped EXCEPT !.pc = "done", !.names = <<InitSql.name>>,
                                               !.i = 2, !.executed = <<InitSql.name>>]]
    /\ editor = NoEditor

\* clients log in, log out, ask for the session status and read notes while
\* the clock advances
Next ==
    \/ \E k \in Slots, c \in Cookies, dbOk \in BOOLEAN :
         \E req \in {r \in GateNoteRequests(c) : r.route \in {"list", "get"}} :
            RequireSession(k, req, dbOk) /\ UNCHANGED <<migVars, editor>>
    \/ \E body \in LoginBodies, randOk \in BOOLEAN, dbOk \in BOOLEAN :
            HandleLogin(body, randOk, dbOk) /\ UNCHANGED <<migVars, editor>>
    \/ \E c \in Cookies, dbOk \in BOOLEAN :
            HandleLogout(c, dbOk) /\ UNCHANGED <<migVars, editor>>
    \/ \E c \in Cookies, dbOk \in BOOLEAN :
            HandleSessionStatus(c, dbOk) /\ UNCHANGED <<migVars, editor>>
    \/ \E k \in Slots, dbOk \in BOOLEAN : HandleListCount(k, dbOk) /\ UNCHANGED <<migVars, editor>>
    \/ \E k \in Slots, dbOk \in BOOLEAN : HandleListPage(k, dbOk) /\ UNCHANGED <<migVars, editor>>
    \/ \E k \in Slots, dbOk \in BOOLEAN : HandleGetNote(k, dbOk) /\ UNCHANGED <<migVars, editor>>
    \/ Tick /\ UNCHANGED <<migVars, editor>>

Spec == Init /\ [][Next]_vars

----------------------------------------------------------------------------
(* The session gate in front of all six notes routes, over every session
   table the session store can hold when the clock reads MaxTime *)

\* the row the n-th login inserts when it runs at time c
SessionRow(n, c) ==
    [id |-> n, token |-> <<TokenChars[n]>>, created_at |-> c,
     expires_at |-> c + SessionTTL]

\* n logins have reached the insert, the i-th at time c[i] (no earlier than the
\* one before it); the rows in present are still there, the others were
\* deleted by a logout or never inserted
GateInit ==
    /\ now = MaxTime
    /\ \E n \in 0..MaxTokens :
         \E c \in {f \in [1..n -> 0..MaxTime] : \A i, j \in 1..n : i < j => f[i] <= f[j]} :
            \E present \in SUBSET (1..n) :
                /\ sessions = {SessionRow(i, c[i]) : i \in present}
                /\ rngUsed = {<<TokenChars[i]>> : i \in 1..n}
    /\ noteUuids = 0
    /\ notes = {}
    /\ inflight = [k \in {1} |-> Idle]
    /\ resp = Answer(NoRequest, "none", "none", 0, [kind |-> "none"], NoSetCookie)
    /\ dir = {InitSql}
    /\ ledgerTable = TRUE
    /\ ledger = {[name |-> InitSql.name, applied_at |-> 0]}
    /\ schema = (InitSql.name :> 1)
    /\ mig = [p \in {1} |-> [MigStopped EXCEPT !.pc = "done", !.names = <<InitSql.name>>,
                                               !.i = 2, !.executed = <<InitSql.name>>]]
    /\ editor = NoEditor

\* clients send requests to every /notes route with every kind of cookie
GateNext ==
    \/ \E k \in Slots, c \in Cookies, dbOk \in BOOLEAN :
         \E req \in GateNoteRequests(c) :
            Admissible(req) /\ RequireSession(k, req, dbOk) /\ UNCHANGED <<migVars, editor>>
    \/ \E k \in Slots, dbOk \in BOOLEAN : HandleListCount(k, dbOk) /\ UNCHANGED <<migVars, editor>>
    \/ \E k \in Slots, dbOk \in BOOLEAN : HandleListPage(k, dbOk) /\ UNCHANGED <<migVars, editor>>
    \/ \E k \in Slots, dbOk \in BOOLEAN : HandleGetNote(k, dbOk) /\ UNCHANGED <<migVars, editor>>
    \/ \E k \in Slots, dbOk \in BOOLEAN : HandleCreateNote(k, dbOk) /\ UNCHANGED <<migVars, editor>>
    \/ \E k \in Slots, dbOk \in BOOLEAN : HandleUpdateNote(k, dbOk) /\ UNCHANGED <<migVars, editor>>
    \/ \E k \in Slots, dbOk \in BOOLEAN : HandleDeleteNote(k, dbOk) /\ UNCHANGED <<migVars, editor>>
    \/ \E k \in Slots, dbOk \in BOOLEAN : HandleFavoriteNote(k, dbOk) /\ UNCHANGED <<migVars, editor>>

SpecGate == GateInit /\ [][GateNext]_vars

----------------------------------------------------------------------------
(* Properties of the session gate and the session store *)

\* the session gate's finding for a cookie: a session row whose token is the
\* trimmed cookie value and whose expires_at lies after now
GateFound(cookie) ==
    /\ cookie.present
    /\ \E s \in sessions : s.token = TrimSpace(cookie.value) /\ s.expires_at > now

\* a step in which the session gate answers a request itself or passes it on
GateStep == resp' # resp /\ resp'.by = "gate"

C1_Step ==
    /\ \A k \in Slots :
        (inflight[k].pc = "idle" /\ inflight'[k].pc # "idle")
            => GateFound(inflight'[k].req.cookie)
    /\ (notes' # notes \/ noteUuids' # noteUuids \/ (resp' # resp /\ resp'.by = "handler"))
            => \E k \in Slots :
                    /\ inflight[k].pc # "idle"
                    /\ resp'.req = inflight[k].req
                    /\ resp'.by = "handler"
    /\ (GateStep /\ ~GateFound(resp'.req.cookie))
            => /\ resp'.status \in {401, 500}
               /\ resp'.status = 500 => resp'.exec = "error"
               /\ (~resp'.req.cookie.present \/ TrimSpace(resp'.req.cookie.value) = <<>>)
                        => resp'.status = 401
               /\ UNCHANGED <<notes, noteUuids, inflight>>

\* C1: on every /notes route a request reaches its note handler, and the
\* notes table is read or written, only if the session gate found in that
\* request a session row whose token is the trimmed cookie value and whose
\* expires_at > now; a request whose cookie is missing, blank, unknown or
\* expired is answered 401 by the gate (500 only when the session lookup
\* itself fails), and the notes table and the handlers are left untouched.
C1_GateGuardsNotes == [][C1_Step]_vars

\* a note was created by a request whose token the gate found, in a store
\* that also holds an expired session
C1_Witness ==
    /\ resp.by = "handler"
    /\ resp.req.route = "create"
    /\ resp.status = 201
    /\ notes # {}
    /\ GateFound(resp.req.cookie)
    /\ \E s \in sessions : s.expires_at <= now

\* the rows of a sessions table whose TTL has elapsed
Expired(table) == {s \in table : s.expires_at <= now}

\* C2: a token whose TTL has elapsed is answered exactly as a token that was
\* never issued: in every reachable state, for every expired session row,
\* every cookie and every /notes request, the gate's response and the
\* session-status response (status, body, cookie clearing) are the same
\* with the row in the table and with the row absent from it.
C2_UnknownExpiredAlike ==
    \A s \in Expired(sessions) :
        \A c \in Cookies, dbOk \in BOOLEAN :
            /\ \A req \in GateNoteRequests(c) :
                    GateOutcome(sessions, req, dbOk) = GateOutcome(sessions \ {s}, req, dbOk)
            /\ StatusOutcome(sessions, c, dbOk) = StatusOutcome(sessions \ {s}, c, dbOk)

\* the session-status handler has just answered a request that carries an
\* expired token
C2_Witness ==
    /\ resp.req.route = "session"
    /\ resp.exec = "ok"
    /\ resp.body = AuthBody(FALSE)
    /\ resp.setCookie = ClearSessionCookie
    /\ \E s \in Expired(sessions) : s.token = resp.req.cookie.value

HasRow(table, token) == \E s \in table : s.token = token

C3_Step ==
    \* valid immediately after issue
    /\ (resp' # resp /\ resp'.req.route = "login" /\ resp'.status = 200)
            => \E s \in sessions' :
                    s.token = resp'.setCookie.value /\ s.expires_at > now'
    \* accepted on every request while the row is there and has not expired
    /\ (GateStep /\ resp'.exec = "ok")
            => (resp'.status = 0 <=> GateFound(resp'.req.cookie))
    \* the row stays until a logout for its token deletes it
    /\ \A s \in sessions \ sessions' :
            /\ resp'.req.route = "logout"
            /\ resp'.exec = "ok"
            /\ resp'.req.cookie.value = s.token
    \* the logout's delete leaves no row for the token
    /\ (resp'.req.route = "logout" /\ resp'.exec = "ok")
            => ~HasRow(sessions', resp'.req.cookie.value)
    \* a token without a row never has a row again
    /\ \A t \in rngUsed : ~HasRow(sessions, t) => ~HasRow(sessions', t)
    /\ \A s \in sessions' : s.token \in rngUsed'

LogoutStep ==
    /\ resp'.req.route = "logout"
    /\ resp' # resp \/ sessions' # sessions

C4_Step ==
    (/\ resp.req.route = "logout"
     /\ resp.exec = "ok"
     /\ GateStep
     /\ resp'.req.cookie = resp.req.cookie
     /\ resp'.exec = "ok")
        => resp'.status = 401

\* C4: a revoke takes effect on the very next request: when a logout
\* carrying cookie value c has run its delete and the next request is a
\* /notes request carrying the same c (session lookup completed), the gate
\* answers it 401.  (The gate admits after a logout only what it admitted
\* before it, so a request admitted here carries a c the gate would accept.)
C4_RevokeOnNextRequest == [][C4_Step]_vars

C5_Step ==
    \* a row is never changed, only inserted or deleted
    /\ \A s \in sessions, t \in sessions' :
            (s.id = t.id \/ s.token = t.token) => s = t
    \* a new row expires at issue time + TTL
    /\ \A s \in sessions' \ sessions :
            s.created_at = now /\ s.expires_at = now + SessionTTL
    /\ \A s \in sessions : s.expires_at = s.created_at + SessionTTL
    \* no admission at or after issue time + TTL
    /\ (GateStep /\ resp'.status = 0)
            => /\ HasRow(sessions, TrimSpace(resp'.req.cookie.value))
               /\ \A s \in sessions :
                    s.token = TrimSpace(resp'.req.cookie.value)
                        => now < s.created_at + SessionTTL

\* C5: expires_at is fixed at issuance to issue time + TTL and never
\* changed afterwards: every inserted row has expires_at = created_at +
\* SessionTTL with created_at the time of the login, no step (gate, session
\* status, login, logout, clock) alters a row that stays in the table, and
\* the gate admits a request only when now < created_at + SessionTTL for
\* the row of its token.
C5_ExpiryFixedAtIssue == [][C5_Step]_vars

\* the gate has refused a token whose row is still in the table, at a time
\* at or after issue time + TTL, while another session is still valid
C5_Witness ==
    /\ resp.by = "gate"
    /\ resp.status = 401
    /\ resp.exec = "ok"
    /\ \E s \in sessions :
            /\ s.token = TrimSpace(resp.req.cookie.value)
            /\ now >= s.created_at + SessionTTL
    /\ \E s \in sessions : s.expires_at > now

\* a step in which handleLogin answers a request
LoginStep == resp' # resp /\ resp'.req.route = "login"

C6_Step ==
    /\ (sessions' \ sessions # {})
            => /\ LoginStep
               /\ resp'.req.body.ok
               /\ resp'.req.body.password = AppPassword
               /\ resp'.status = 200
    /\ LoginStep
            => IF ~resp'.req.body.ok THEN
                    /\ resp'.status = 400
                    /\ resp'.setCookie = NoSetCookie
                    /\ sessions' = sessions
               ELSE IF resp'.req.body.password # AppPassword THEN
                    /\ resp'.status = 401
                    /\ resp'.setCookie = NoSetCookie
                    /\ sessions' = sessions
               ELSE
                    \/ /\ resp'.status = 200
                       /\ resp'.body = OkBody
                       /\ \E s \in sessions' \ sessions :
                            /\ sessions' = sessions \cup {s}
                            /\ ~HasRow(sessions, s.token)
                            /\ resp'.setCookie = SetSessionCookie(s.token)
                    \/ /\ resp'.status = 500
                       /\ resp'.setCookie = NoSetCookie
                       /\ sessions' = sessions

C7_Step ==
    LogoutStep =>
        LET c == resp'.req.cookie
            matching == IF c.present THEN {s \in sessions : s.token = c.value} ELSE {}
        IN  /\ resp'.status = 200
            /\ resp'.body = OkBody
            /\ resp'.setCookie = ClearSessionCookie
            /\ sessions' \subseteq sessions
            /\ (sessions \ sessions') \subseteq matching
            /\ resp'.exec = "ok" => sessions' = sessions \ matching
            /\ matching = {} => sessions' = sessions

\* C7: logout never fails the request and is idempotent: every logout is
\* answered 200 {ok:true} with the cookie cleared; the rows it removes all
\* have the presented cookie value as token, its delete removes every such
\* row, and every other row stays as it is; with no cookie, an unknown
\* token or a token already revoked the sessions table is unchanged.
C7_LogoutIdempotent == [][C7_Step]_vars

\* a logout has deleted the row of an issued token and left another row
C7_Witness ==
    /\ resp.req.route = "logout"
    /\ resp.exec = "ok"
    /\ resp.status = 200
    /\ resp.req.cookie.value \in rngUsed
    /\ ~HasRow(sessions, resp.req.cookie.value)
    /\ sessions # {}

----------------------------------------------------------------------------
(* Properties of the schema migrator *)

\* the pc values of a migrator inside a run, past the directory listing
InLoop == {"check", "readfile", "begin", "exec", "insert", "commit"}

\* the names of the non-directory entries with the .sql suffix
SqlFiles(entries) ==
    {e.name : e \in {f \in entries : ~f.isDir /\ HasSuffix(f.name, SqlSuffix)}}

LedgerNames == {row.name : row \in ledger}

C8_Step ==
    \* a file whose name has a ledger entry is not executed
    /\ \A p \in Procs :
        Len(mig'[p].executed) > Len(mig[p].executed) => ~LedgerHas(CurrentName(p))
    \* ledger entries are only added
    /\ ledger \subseteq ledger'
    /\ \A r \in ledger, q \in ledger' : r.name = q.name => r = q
    \* no file's schema change is committed twice
    /\ \A n \in DOMAIN schema' : schema'[n] <= 1
    \* a run that ends without error has every migration file in the ledger
    /\ \A p \in Procs :
        (mig[p].pc # "done" /\ mig'[p].pc = "done") => SqlFiles(dir) \subseteq LedgerNames'
    \* a run that starts with every migration file in the ledger executes
    \* nothing and changes nothing
    /\ \A p \in Procs :
        (mig[p].pc \notin {"stopped", "done", "failed"}
            /\ SqlFiles(dir) \subseteq mig[p].ledgerAtStart)
                => /\ mig'[p].executed = <<>>
                   /\ UNCHANGED <<ledger, schema>>

\* C8: each migration file is applied exactly once across process starts:
\* the migrator executes a file only when its name has no ledger entry, no
\* file's schema change is ever committed a second time, a run that ends
\* without error leaves every migration file in the ledger, a run that
\* starts with every migration file in the ledger executes no file and
\* leaves ledger and schema as they are, and a ledger row, once there, stays
\* as it is.
C8_AppliedExactlyOnce == [][C8_Step]_vars

\* a process start after a fully successful run of three files has ended
\* without executing anything
C8_Witness ==
    /\ mig[1].pc = "done"
    /\ mig[1].executed = <<>>
    /\ Len(mig[1].names) = 3
    /\ \A i \in 1..3 : mig[1].names[i] \in mig[1].ledgerAtStart
    /\ \A n \in DOMAIN schema : schema[n] = 1

C9_Inv ==
    \A e \in DirEntries :
        LedgerHas(e.name) <=> (e.name \in DOMAIN schema /\ schema[e.name] >= 1)

C9_Step ==
    /\ C9_Inv'
    /\ \A p \in Procs :
        (mig[p].pc \in {"exec", "insert", "commit"} /\ mig'[p].pc = "failed")
            => /\ UNCHANGED <<ledger, schema>>
               /\ CurrentName(p) \notin LedgerNames'
               /\ CurrentName(p) \notin DOMAIN schema'

\* C9: for a single migrator, in every reachable state a migration name is
\* in the ledger if and only if that file's schema change is committed, and
\* a failure while executing the file, inserting its ledger row or
\* committing leaves neither the schema change nor the ledger entry.
C9_LedgerIffSchema == [][C9_Step]_vars

\* a run failed in the transaction of its second file, after committing its
\* first one
C9_Witness ==
    /\ mig[1].pc = "failed"
    /\ Len(mig[1].executed) = 2
    /\ mig[1].executed[1] \in LedgerNames
    /\ mig[1].executed[2] \notin LedgerNames
    /\ mig[1].executed[2] \notin DOMAIN schema

IsPrefix(a, b) == Len(a) <= Len(b) /\ SubSeq(b, 1, Len(a)) = a

\* the sorted list of the files the run found without a ledger entry
NotYetApplied(p) ==
    SelectSeq(mig[p].names, LAMBDA n : n \notin mig[p].ledgerAtStart)

\* the names the current run has put into the ledger
AppliedThisRun(p) == LedgerNames \ mig[p].ledgerAtStart

C10_Inv ==
    \A p \in Procs :
        \* the list holds the .sql files of the directory, in lexicographic order
        /\ mig[p].pc \in InLoop =>
            /\ {mig[p].names[i] : i \in 1..Len(mig[p].names)} = SqlFiles(dir)
            /\ Len(mig[p].names) = Cardinality(SqlFiles(dir))
        /\ \A i, j \in 1..Len(mig[p].names) :
                i < j => StrLess(mig[p].names[i], mig[p].names[j])
        \* what the run has executed and applied are prefixes of what was pending
        /\ IsPrefix(mig[p].executed, NotYetApplied(p))
        /\ \E m \in {Len(mig[p].executed) - 1, Len(mig[p].executed)} :
                /\ m >= 0
                /\ AppliedThisRun(p) = {NotYetApplied(p)[i] : i \in 1..m}
        /\ mig[p].pc = "done" => Len(mig[p].executed) = Len(NotYetApplied(p))

C10_Step ==
    /\ C10_Inv'
    \* nothing is executed after a failure
    /\ \A p \in Procs :
        mig[p].pc = "failed"
            => \/ UNCHANGED <<mig, ledger, schema>>
               \/ mig'[p].pc = "ensure" /\ mig'[p].executed = <<>> /\ UNCHANGED <<ledger, schema>>

\* C10: only the non-directory entries with the .sql suffix are applied, in
\* lexicographic order of their names, and the first failure stops the run:
\* at every point the files the run has executed, and the names it has put
\* into the ledger, are prefixes of the sorted list of the files that had no
\* ledger entry when the run started, and after a failure the run executes
\* no further file.
C10_SortedPrefixApplied == [][C10_Step]_vars

\* with 1.sql, 10.sql and 2.sql pending, a run applied 1.sql, failed on
\* 10.sql and left 2.sql alone
C10_Witness ==
    /\ mig[1].pc = "failed"
    /\ Len(NotYetApplied(1)) = 3
    /\ mig[1].executed = << <<"1", ".", "s", "q", "l">>, <<"1", "0", ".", "s", "q", "l">> >>
    /\ AppliedThisRun(1) = {<<"1", ".", "s", "q", "l">>}
    /\ \E e \in dir : e.isDir
    /\ \E e \in dir : ~e.isDir /\ ~HasSuffix(e.name, SqlSuffix)

----------------------------------------------------------------------------
(* Process startup (main, app.New) *)

\* a process whose listener accepts connections from its first instruction on
ListeningEarly == \E p \in Procs : mig[p].pc # "stopped"

\* httpServer.ListenAndServe is accepting connections
Listening == \E p \in Procs : mig[p].pc = "serving"

\* the process is started: main begins with config.Load
StartMain(p) ==
    /\ mig[p].pc = "stopped"
    /\ mig' = [mig EXCEPT ![p] = [MigStopped EXCEPT !.pc = "config"]]
    /\ UNCHANGED <<dir, ledgerTable, ledger, schema>>

\* config.Load: an error when a required variable is missing or invalid
LoadConfig(p, ok) ==
    /\ mig[p].pc = "config"
    /\ mig' = [mig EXCEPT ![p].pc = IF ok THEN "connect" ELSE "configFailed"]
    /\ UNCHANGED <<dir, ledgerTable, ledger, schema>>

\* app.New: pgxpool.New and db.Ping; on success runMigrations is entered
ConnectDb(p, dbOk) ==
    /\ mig[p].pc = "connect"
    /\ mig' = IF dbOk
              THEN [mig EXCEPT ![p] = [MigStopped EXCEPT !.pc = "ensure",
                            !.ledgerAtStart = {row.name : row \in ledger}]]
              ELSE [mig EXCEPT ![p].pc = "pingFailed"]
    /\ UNCHANGED <<dir, ledgerTable, ledger, schema>>

\* runMigrations returned nil, New returns the server: ListenAndServe
Listen(p, ok) ==
    /\ mig[p].pc = "done"
    /\ mig' = [mig EXCEPT ![p].pc = IF ok THEN "serving" ELSE "listenFailed"]
    /\ UNCHANGED <<dir, ledgerTable, ledger, schema>>

\* log.Fatalf after an error of config.Load, New or ListenAndServe
Fatal(p) ==
    /\ mig[p].pc \in {"configFailed", "pingFailed", "failed", "listenFailed"}
    /\ mig' = [mig EXCEPT ![p].pc = "stopped"]
    /\ UNCHANGED <<dir, ledgerTable, ledger, schema>>

\* SIGINT or SIGTERM: httpServer.Shutdown
Shutdown(p) ==
    /\ mig[p].pc = "serving"
    /\ mig' = [mig EXCEPT ![p].pc = "stopped"]
    /\ UNCHANGED <<dir, ledgerTable, ledger, schema>>

\* a fresh store and a migrations directory that holds every entry; no
\* process runs
StartInit ==
    /\ now = 0
    /\ sessions = {}
    /\ rngUsed = {}
    /\ noteUuids = 0
    /\ notes = {}
    /\ inflight = [k \in {1} |-> Idle]
    /\ resp = Answer(NoRequest, "none", "none", 0, [kind |-> "none"], NoSetCookie)
    /\ dir = DirEntries
    /\ ledgerTable = FALSE
    /\ ledger = {}
    /\ schema = <<>>
    /\ mig = [p \in {1} |-> MigStopped]
    /\ editor = NoEditor

\* the process from its start to its end; requests reach a handler only
\* through the listener
StartNext ==
    \/ \E p \in Procs : StartMain(p) /\ UNCHANGED <<authVars, editor>>
    \/ \E p \in Procs, ok \in BOOLEAN : LoadConfig(p, ok) /\ UNCHANGED <<authVars, editor>>
    \/ \E p \in Procs, dbOk \in BOOLEAN : ConnectDb(p, dbOk) /\ UNCHANGED <<authVars, editor>>
    \/ \E p \in Procs, dbOk \in BOOLEAN : EnsureMigrationsTable(p, dbOk) /\ UNCHANGED <<authVars, editor>>
    \/ \E p \in Procs, ioOk \in BOOLEAN : ReadDir(p, ioOk) /\ UNCHANGED <<authVars, editor>>
    \/ \E p \in Procs, dbOk \in BOOLEAN : CheckApplied(p, dbOk) /\ UNCHANGED <<authVars, editor>>
    \/ \E p \in Procs, ioOk \in BOOLEAN : ReadFile(p, ioOk) /\ UNCHANGED <<authVars, editor>>
    \/ \E p \in Procs, dbOk \in BOOLEAN : BeginTx(p, dbOk) /\ UNCHANGED <<authVars, editor>>
    \/ \E p \in Procs, dbOk \in BOOLEAN : ExecContent(p, dbOk) /\ UNCHANGED <<authVars, editor>>
    \/ \E p \in Procs, dbOk \in BOOLEAN : InsertLedger(p, dbOk) /\ UNCHANGED <<authVars, editor>>
    \/ \E p \in Procs, dbOk \in BOOLEAN : CommitTx(p, dbOk) /\ UNCHANGED <<authVars, editor>>
    \/ \E p \in Procs, ok \in BOOLEAN : Listen(p, ok) /\ UNCHANGED <<authVars, editor>>
    \/ \E p \in Procs : Fatal(p) /\ UNCHANGED <<authVars, editor>>
    \/ \E p \in Procs : Shutdown(p) /\ UNCHANGED <<authVars, editor>>
    \/ \E body \in LoginBodies, randOk \in BOOLEAN, dbOk \in BOOLEAN :
            Listening /\ HandleLogin(body, randOk, dbOk) /\ UNCHANGED <<migVars, editor>>
    \/ \E c \in Cookies, dbOk \in BOOLEAN :
            Listening /\ HandleSessionStatus(c, dbOk) /\ UNCHANGED <<migVars, editor>>

SpecStart == StartInit /\ [][StartNext]_vars

StartupFailed == {"configFailed", "pingFailed", "failed", "listenFailed"}

C11_Step ==
    \A p \in Procs :
        \* the listener starts only when runMigrations has returned nil, with
        \* every migration file in the ledger
        /\ (mig[p].pc # "serving" /\ mig'[p].pc = "serving")
                => /\ mig[p].pc = "done"
                   /\ ledgerTable
                   /\ SqlFiles(dir) \subseteq LedgerNames
        \* runMigrations is entered only after the ping, the ping only after
        \* the configuration was loaded
        /\ (mig[p].pc # "done" /\ mig'[p].pc = "done") => mig[p].pc \in InLoop \cup {"readdir"}
        /\ (mig[p].pc # "ensure" /\ mig'[p].pc = "ensure") => mig[p].pc = "connect"
        /\ (mig[p].pc # "connect" /\ mig'[p].pc = "connect") => mig[p].pc = "config"
        \* after a failure the process only exits
        /\ mig[p].pc \in StartupFailed => mig'[p].pc \in {mig[p].pc, "stopped"}
        \* a request is handled only by a process whose listener is started
        /\ (resp' # resp \/ sessions' # sessions \/ notes' # notes \/ inflight' # inflight)
                => mig[p].pc = "serving" /\ mig'[p].pc = "serving"

\* C11: no request is accepted before startup has succeeded: a process
\* starts its listener only coming from a runMigrations that returned nil,
\* which it entered only after the database ping, which it made only after
\* the configuration was loaded, and at that moment every migration file of
\* the directory has a ledger entry; after a failure of any of these the
\* process only exits; and a request is handled, in any way, only while the
\* listener of the process is started.
C11_ServeOnlyAfterStartup == [][C11_Step]_vars

\* a process that failed in its first run handled a login in a later run,
\* with the three migration files in the ledger
C11_Witness ==
    /\ mig[1].pc = "serving"
    /\ resp.req.route = "login"
    /\ resp.status = 200
    /\ mig[1].executed # <<>>
    /\ mig[1].ledgerAtStart # {}
    /\ Cardinality(ledger) = 3

----------------------------------------------------------------------------
(* The normalisation of submitted titles and tags *)

\* the row a note has after a write with the given body: created at c, last
\* written at u
NoteOf(id, body, c, u) ==
    [id |-> id,
     title |-> NormalizeTitle(body.title),
     content |-> body.content,
     tags |-> sanitizeTags(body.tags),
     is_favorite |-> body.is_favorite,
     created_at |-> c,
     updated_at |-> u]

\* the JSON body {}
EmptyBody ==
    [ok |-> TRUE, title |-> <<>>, content |-> <<>>, tags |-> <<>>, is_favorite |-> FALSE]

\* the cookie of the session the first login issued
ValidCookie == [present |-> TRUE, value |-> <<TokenChars[1]>>]

\* a tag of n characters: a..a followed by the given last character
LongTag(n, last) == [i \in 1..n |-> IF i = n THEN last ELSE "a"]

\* submitted tags: empty, blank, padded, upper case, of 32 and of 33
\* characters (two of them equal after truncation, one with a space as
\* 32nd character)
NormTags ==
    {<<>>, <<" ">>, <<"a">>, <<"A">>, <<" ", "a", " ">>, <<"b">>,
     LongTag(31, "a"), LongTag(32, "a"), LongTag(33, "b"), LongTag(32, "T"),
     LongTag(32, " ") \o <<"b">>}

NormTagLists ==
    {<<>>} \cup {<<t>> : t \in NormTags}
        \cup {<<t, u>> : t \in NormTags, u \in NormTags}
        \cup {<<t, u, v>> : t \in NormTags, u \in NormTags, v \in NormTags}

NormTitles == {<<>>, <<" ">>, <<" ", "t", " ">>}

NormBodies ==
    {[ok |-> TRUE, title |-> t, content |-> <<" ">>, tags |-> g, is_favorite |-> FALSE] :
        t \in NormTitles, g \in NormTagLists}

NormRequests ==
    {[route |-> "create", cookie |-> ValidCookie, body |-> b] : b \in NormBodies}
        \cup {[route |-> "update", cookie |-> ValidCookie,
               id |-> [ok |-> TRUE, uuid |-> 1], body |-> b] : b \in NormBodies}

\* one note is stored and a create or an update has just passed the gate
NormInit ==
    /\ now = 1
    /\ sessions = {SessionRow(1, 0)}
    /\ rngUsed = {<<TokenChars[1]>>}
    /\ noteUuids = 1
    /\ notes = {NoteOf(1, EmptyBody, 0, 0)}
    /\ \E req \in NormRequests :
        /\ inflight = [k \in {1} |->
                [pc |-> "authorized", req |-> req, token |-> <<TokenChars[1]>>]]
        /\ resp = Answer(req, "gate", "ok", 0, Pending, NoSetCookie)
    /\ dir = {InitSql}
    /\ ledgerTable = TRUE
    /\ ledger = {[name |-> InitSql.name, applied_at |-> 0]}
    /\ schema = (InitSql.name :> 1)
    /\ mig = [p \in {1} |-> [MigStopped EXCEPT !.pc = "done", !.names = <<InitSql.name>>,
                                               !.i = 2, !.executed = <<InitSql.name>>]]
    /\ editor = NoEditor

NormNext ==
    \/ \E k \in Slots, dbOk \in BOOLEAN : HandleCreateNote(k, dbOk) /\ UNCHANGED <<migVars, editor>>
    \/ \E k \in Slots, dbOk \in BOOLEAN : HandleUpdateNote(k, dbOk) /\ UNCHANGED <<migVars, editor>>

SpecNormalize == NormInit /\ [][NormNext]_vars

\* the upper-case letters among the characters of the model
UpperCase == {"A", "B", "T"}

\* a stored tag list: no duplicates, no empty tag, at most 32 characters per
\* tag, no upper-case letter
TagsWellFormed(g) ==
    /\ \A i, j \in 1..Len(g) : i # j => g[i] # g[j]
    /\ \A i \in 1..Len(g) :
        /\ g[i] # <<>>
        /\ Len(g[i]) <= 32
        /\ \A c \in 1..Len(g[i]) : g[i][c] \notin UpperCase

\* a submitted tag as it is to be stored: trimmed, lower case, cut to 32
Stored(tag) ==
    LET t == TrimSpace(tag)
        l == [i \in 1..Len(t) |->
                CASE t[i] = "A" -> "a" [] t[i] = "B" -> "b" [] t[i] = "T" -> "t" [] OTHER -> t[i]]
    IN  SubSeq(l, 1, IF Len(l) > 32 THEN 32 ELSE Len(l))

\* the position at which value v first occurs among the submitted tags
FirstAt(tags, v) == CHOOSE i \in 1..Len(tags) :
                        Stored(tags[i]) = v /\ \A j \in 1..(i - 1) : Stored(tags[j]) # v

\* g holds each non-empty submitted value once, in order of first occurrence
InSubmittedOrder(g, tags) ==
    /\ {g[i] : i \in 1..Len(g)} = {Stored(tags[i]) : i \in 1..Len(tags)} \ {<<>>}
    /\ \A i, j \in 1..Len(g) : i < j => FirstAt(tags, g[i]) < FirstAt(tags, g[j])

\* a step in which a create or an update stores a note
NoteWritten ==
    /\ resp' # resp
    /\ resp'.by = "handler"
    /\ resp'.req.route \in {"create", "update"}
    /\ resp'.status \in {200, 201}

C12_Step ==
    /\ \A n \in notes' : TagsWellFormed(n.tags)
    /\ NoteWritten =>
        /\ resp'.body.note \in notes'
        /\ TagsWellFormed(resp'.body.note.tags)
        /\ InSubmittedOrder(resp'.body.note.tags, resp'.req.body.tags)

\* C12: for every tag list submitted on create or update, the stored tag
\* list has no duplicates, no empty string, no element longer than 32
\* characters and no upper-case letter, and holds the submitted values
\* (trimmed, lower-cased, cut to 32 characters) once each in order of first
\* occurrence; every note of the store has such a tag list.
C12_TagsSanitized == [][C12_Step]_vars

\* an update stored the tags of a list in which a 33-character tag repeats,
\* after truncation, a 32-character one, next to a blank tag
C12_Witness ==
    /\ resp.req.route = "update"
    /\ resp.status = 200
    /\ resp.req.body.tags = <<LongTag(32, "a"), <<" ">>, LongTag(33, "b")>>
    /\ resp.body.note.tags = <<LongTag(32, "a")>>
    /\ resp.body.note \in notes

----------------------------------------------------------------------------
(* One client with a valid session writes and reads notes *)

\* bodies with an empty, a blank, a padded and an inner-blank title, with
\* padded content and with tags that need cleaning
WriteBodies ==
    {[ok |-> TRUE, title |-> <<>>, content |-> <<" ", "x", " ">>,
      tags |-> << <<"A">>, <<"a">> >>, is_favorite |-> FALSE],
     [ok |-> TRUE, title |-> <<" ", "\t">>, content |-> <<"x">>,
      tags |-> << <<" ">> >>, is_favorite |-> FALSE],
     [ok |-> TRUE, title |-> <<" ", "t", " ", "T", "\n">>, content |-> <<>>,
      tags |-> <<>>, is_favorite |-> TRUE]}

WriteFavoriteBodies == {[ok |-> TRUE, value |-> v] : v \in BOOLEAN}

\* the /notes requests of the client
WriteRequests ==
    {[route |-> "create", cookie |-> ValidCookie, body |-> b] : b \in WriteBodies \cup {BadJson}}
        \cup {[route |-> "get", cookie |-> ValidCookie, id |-> i] : i \in IdParams}
        \cup {[route |-> "delete", cookie |-> ValidCookie, id |-> i] : i \in GateIds}
        \cup {[route |-> "update", cookie |-> ValidCookie, id |-> i, body |-> b] :
                i \in GateIds, b \in WriteBodies}
        \cup {[route |-> "favorite", cookie |-> ValidCookie, id |-> i, body |-> b] :
                i \in GateIds, b \in WriteFavoriteBodies}

\* the client has just logged in on a store without notes
WriteInit ==
    /\ now = 0
    /\ sessions = {SessionRow(1, 0)}
    /\ rngUsed = {<<TokenChars[1]>>}
    /\ noteUuids = 0
    /\ notes = {}
    /\ inflight = [k \in {1} |-> Idle]
    /\ resp = Answer(NoRequest, "none", "none", 0, [kind |-> "none"], NoSetCookie)
    /\ dir = {InitSql}
    /\ ledgerTable = TRUE
    /\ ledger = {[name |-> InitSql.name, applied_at |-> 0]}
    /\ schema = (InitSql.name :> 1)
    /\ mig = [p \in {1} |-> [MigStopped EXCEPT !.pc = "done", !.names = <<InitSql.name>>,
                                               !.i = 2, !.executed = <<InitSql.name>>]]
    /\ editor = NoEditor

WriteNext ==
    \/ \E k \in Slots, dbOk \in BOOLEAN :
         \E req \in WriteRequests :
            Admissible(req) /\ RequireSession(k, req, dbOk) /\ UNCHANGED <<migVars, editor>>
    \/ \E k \in Slots, dbOk \in BOOLEAN : HandleGetNote(k, dbOk) /\ UNCHANGED <<migVars, editor>>
    \/ \E k \in Slots, dbOk \in BOOLEAN : HandleCreateNote(k, dbOk) /\ UNCHANGED <<migVars, editor>>
    \/ \E k \in Slots, dbOk \in BOOLEAN : HandleUpdateNote(k, dbOk) /\ UNCHANGED <<migVars, editor>>
    \/ \E k \in Slots, dbOk \in BOOLEAN : HandleDeleteNote(k, dbOk) /\ UNCHANGED <<migVars, editor>>
    \/ \E k \in Slots, dbOk \in BOOLEAN : HandleFavoriteNote(k, dbOk) /\ UNCHANGED <<migVars, editor>>
    \/ Tick /\ UNCHANGED <<migVars, editor>>

SpecWrite == WriteInit /\ [][WriteNext]_vars

\* t is s without the whitespace around it
IsTrimOf(t, s) ==
    \E i \in 1..(Len(s) + 1), j \in 0..Len(s) :
        /\ t = SubSeq(s, i, j)
        /\ \A x \in (1..(i - 1)) \cup ((j + 1)..Len(s)) : s[x] \in {" ", "\t", "\n", "\r"}
        /\ t # <<>> => t[1] \notin {" ", "\t", "\n", "\r"}
                        /\ t[Len(t)] \notin {" ", "\t", "\n", "\r"}

IsBlank(s) == \A x \in 1..Len(s) : s[x] \in {" ", "\t", "\n", "\r"}

\* a step in which setFavorite stores a note
FavoriteWritten ==
    /\ resp' # resp
    /\ resp'.by = "handler"
    /\ resp'.req.route = "favorite"
    /\ resp'.status = 200

C13_Step ==
    /\ \A n \in notes' : n.title # <<>>
    /\ NoteWritten =>
        /\ resp'.body.note \in notes'
        /\ IF IsBlank(resp'.req.body.title)
           THEN resp'.body.note.title = <<"U", "n", "t", "i", "t", "l", "e", "d">>
           ELSE IsTrimOf(resp'.body.note.title, resp'.req.body.title)
    /\ FavoriteWritten =>
        /\ resp'.body.note \in notes'
        /\ \E n \in notes : n.id = resp'.body.note.id /\ n.title = resp'.body.note.title

\* C13: for every title submitted on create or update, the stored title is
\* "Untitled" when the submitted title is empty or whitespace-only and
\* otherwise the submitted title without the whitespace around it;
\* setFavorite leaves the title as it is; no stored note has an empty title.
C13_TitleNormalized == [][C13_Step]_vars

\* an update with a blank title has stored "Untitled" over a trimmed title
C13_Witness ==
    /\ resp.req.route = "update"
    /\ resp.status = 200
    /\ resp.req.body.title = <<" ", "\t">>
    /\ resp.body.note.title = <<"U", "n", "t", "i", "t", "l", "e", "d">>
    /\ resp.body.note \in notes

\* the handler of the route has answered in this step
Answered(route) ==
    /\ resp' # resp
    /\ resp'.by = "handler"
    /\ resp'.req.route = route

\* the last response is the handler's answer to a request of the route for
\* note i
LastAnswer(route, i) ==
    /\ resp.by = "handler"
    /\ resp.req.route = route
    /\ resp.req.id.ok
    /\ resp.req.id.uuid = i

\* a write to the note with id i has succeeded in this step
WriteTo(i) ==
    \E route \in {"update", "favorite", "delete"} :
        /\ Answered(route)
        /\ resp'.status \in {200, 204}
        /\ resp'.req.id.uuid = i

C14_Step ==
    /\ \A n \in notes' : n.id <= noteUuids'
    /\ \A m, n \in notes' : m.id = n.id => m = n
    \* create stores and returns the submitted values under a new id
    /\ Answered("create") /\ resp'.status = 201 =>
        LET n == resp'.body.note
            b == resp'.req.body IN
        /\ n \in notes'
        /\ n.id > noteUuids
        /\ \A m \in notes : m.id # n.id
        /\ IF IsBlank(b.title) THEN n.title = <<"U", "n", "t", "i", "t", "l", "e", "d">>
                               ELSE IsTrimOf(n.title, b.title)
        /\ TagsWellFormed(n.tags) /\ InSubmittedOrder(n.tags, b.tags)
        /\ n.content = b.content
        /\ n.is_favorite = b.is_favorite
    \* a stored note stays as it is unless a write to its id succeeds
    /\ \A n \in notes : n \in notes' \/ WriteTo(n.id)
    \* a note appears under a new id by create only
    /\ \A n \in notes' : (\A m \in notes : m.id # n.id) => Answered("create") /\ resp'.status = 201
    \* get returns the stored note, or NotFound when there is none
    /\ Answered("get") /\ resp'.exec = "ok" =>
        IF \E n \in notes : n.id = resp'.req.id.uuid
        THEN resp'.status = 200 /\ resp'.body.note \in notes
                /\ resp'.body.note.id = resp'.req.id.uuid
        ELSE resp'.status = 404
    \* delete removes the note
    /\ Answered("delete") /\ resp'.status = 204 =>
        /\ \E n \in notes : n.id = resp'.req.id.uuid
        /\ \A n \in notes' : n.id # resp'.req.id.uuid

\* C14: create(title, content, tags, isFavorite) stores and returns, under
\* a new id i, the normalized title and tags, the content exactly as
\* submitted and the submitted favorite flag; the stored note stays as it is
\* until a write to i succeeds, and get(i) that reaches the store returns the
\* stored note; once delete(i) has succeeded, every get(i) that reaches the
\* store answers 404, forever after.
C14_RoundTrip ==
    /\ [][C14_Step]_vars
    /\ \A i \in 1..MaxNotes :
        [](LastAnswer("delete", i) /\ resp.status = 204 =>
            [](LastAnswer("get", i) /\ resp.exec = "ok" => resp.status = 404))

\* get returns a created note with its padded content and cleaned tags
C14_Witness ==
    /\ LastAnswer("get", 1)
    /\ resp.status = 200
    /\ resp.body.note.content = <<" ", "x", " ">>
    /\ resp.body.note.tags = << <<"a">> >>
    /\ resp.body.note.created_at = resp.body.note.updated_at
    /\ resp.body.note \in notes

\* get answers 404 for a note that was stored and has been deleted
C14_WitnessDeleted ==
    /\ LastAnswer("get", 1)
    /\ resp.status = 404
    /\ noteUuids = 1

C15_Step ==
    /\ \A n \in notes' : n.created_at <= n.updated_at /\ n.updated_at <= now'
    /\ Answered("create") /\ resp'.status = 201 =>
        /\ resp'.body.note \in notes'
        /\ resp'.body.note.created_at = now
        /\ resp'.body.note.updated_at = now
    /\ \A route \in {"update", "favorite"} :
        Answered(route) /\ resp'.status = 200 =>
            /\ resp'.body.note \in notes'
            /\ resp'.body.note.updated_at = now
            /\ \E m \in notes : /\ m.id = resp'.body.note.id
                                /\ m.created_at = resp'.body.note.created_at

\* C15: every stored note has updated_at >= created_at, neither later than
\* the clock: create sets both to the clock reading of the insert, update
\* and setFavorite set updated_at to the clock reading of the write and
\* leave created_at as it was.
C15_UpdatedNotBeforeCreated == [][C15_Step]_vars

\* setFavorite has moved updated_at of a note past its created_at
C15_Witness ==
    /\ resp.by = "handler"
    /\ resp.req.route = "favorite"
    /\ resp.status = 200
    /\ resp.body.note \in notes
    /\ resp.body.note.updated_at > resp.body.note.created_at

----------------------------------------------------------------------------
(* Listing notes: every filter, page and limit over stores of up to three
   notes *)

\* three notes as create and update leave them: an upper-case title, a
\* defaulted title, cleaned tags, and texts with the characters % _ \
ListRows ==
    {NoteOf(1, [ok |-> TRUE, title |-> <<"A", "b">>, content |-> <<>>,
                tags |-> << <<"a">> >>, is_favorite |-> TRUE], 0, 0),
     NoteOf(2, [ok |-> TRUE, title |-> <<" ">>, content |-> <<"a", "%", "b">>,
                tags |-> << <<"A">>, <<" ", "b">> >>, is_favorite |-> FALSE], 0, 1),
     NoteOf(3, [ok |-> TRUE, title |-> <<"t", "_">>, content |-> <<"b", "\\">>,
                tags |-> <<>>, is_favorite |-> FALSE], 1, 1)}

\* raw values of the query parameters
ListQueries ==
    {<<>>, <<" ">>, <<"a">>, <<"A">>, <<"B">>, <<" ", "b", " ">>,
     <<"a", "b">>, <<"b", "a">>, <<"%">>, <<"_">>, <<"\\">>,
     <<"a", "_", "b">>, <<"a", "%", "b">>, <<"t", "_">>, <<"b", "\\">>,
     <<"\\", "%">>, <<"\\", "\\">>}

ListTags ==
    {<<>>, <<" ">>, <<"a">>, <<" ", "a", " ">>, <<"A">>, <<"b">>, <<"t">>}

ListFavorites ==
    {<<>>, <<" ">>, <<"t", "r", "u", "e">>, <<"f", "a", "l", "s", "e">>,
     <<" ", "1", " ">>, <<"F">>, <<"y", "e", "s">>}

ListPages ==
    {<<>>, <<"0">>, <<"-", "1">>, <<"1">>, <<"2">>, <<"3">>, <<"x">>,
     <<" ", "1">>, <<"+", "2">>, <<"4", "0", "0">>,
     <<"9", "9", "9", "9", "9">>}

ListLimits ==
    {<<>>, <<"0">>, <<"-", "5">>, <<"1">>, <<"2">>, <<"3", "0">>,
     <<"1", "0", "0">>, <<"1", "0", "1">>, <<"x">>,
     <<"9", "9", "9", "9", "9">>}

\* every filter with the default page and with page 2 of limit 1, and every
\* page and limit without a filter and with the favorite filter
ListRequests ==
    {[route |-> "list", cookie |-> ValidCookie, query |-> q, tag |-> t,
      favorite |-> f, page |-> pl[1], limit |-> pl[2]] :
        q \in ListQueries, t \in ListTags, f \in ListFavorites,
        pl \in {<<<<>>, <<>>>>, <<<<"2">>, <<"1">>>>}}
    \cup
    {[route |-> "list", cookie |-> ValidCookie, query |-> <<>>, tag |-> <<>>,
      favorite |-> f, page |-> pg, limit |-> lm] :
        f \in {<<>>, <<"0">>}, pg \in ListPages, lm \in ListLimits}

\* the store holds any of the three notes and a list request has just
\* passed the gate
ListInit ==
    /\ now = 1
    /\ sessions = {SessionRow(1, 0)}
    /\ rngUsed = {<<TokenChars[1]>>}
    /\ noteUuids = 3
    /\ notes \in SUBSET ListRows
    /\ \E req \in ListRequests :
        /\ inflight = [k \in {1} |->
                [pc |-> "authorized", req |-> req, token |-> <<TokenChars[1]>>]]
        /\ resp = Answer(req, "gate", "ok", 0, Pending, NoSetCookie)
    /\ dir = {InitSql}
    /\ ledgerTable = TRUE
    /\ ledger = {[name |-> InitSql.name, applied_at |-> 0]}
    /\ schema = (InitSql.name :> 1)
    /\ mig = [p \in {1} |-> [MigStopped EXCEPT !.pc = "done", !.names = <<InitSql.name>>,
                                               !.i = 2, !.executed = <<InitSql.name>>]]
    /\ editor = NoEditor

ListNext ==
    \/ \E k \in Slots, dbOk \in BOOLEAN : HandleListCount(k, dbOk) /\ UNCHANGED <<migVars, editor>>
    \/ \E k \in Slots, dbOk \in BOOLEAN : HandleListPage(k, dbOk) /\ UNCHANGED <<migVars, editor>>

SpecList == ListInit /\ [][ListNext]_vars

\* the filter of a list request as the client states it: the trimmed query
\* and tag, and the favorite flag when one is given
QueryOf(req) == TrimSpace(req.query)

TagOf(req) == TrimSpace(req.tag)

FavoriteGiven(req) == TrimSpace(req.favorite) # <<>>

FavoriteOf(req) == ParseBool(TrimSpace(req.favorite)).value

\* the stored notes the filter of the request selects, the query being
\* matched as the pattern %query%
SelectedRows(req) ==
    {n \in notes :
        /\ QueryOf(req) = <<>> \/ ILikeContains(n.title, QueryOf(req))
                               \/ ILikeContains(n.content, QueryOf(req))
        /\ TagOf(req) = <<>> \/ \E i \in 1..Len(n.tags) : n.tags[i] = TagOf(req)
        /\ FavoriteGiven(req) => n.is_favorite = FavoriteOf(req)}

\* the number of rows a page holds when total rows are selected
PageSize(total, page, limit) ==
    IF total - (page - 1) * limit <= 0 THEN 0
    ELSE IF total - (page - 1) * limit < limit THEN total - (page - 1) * limit
    ELSE limit

C16_Step ==
    /\ \A k \in Slots :
        inflight[k].pc = "authorized" /\ inflight'[k].pc = "counted" =>
            inflight'[k].total = Cardinality(SelectedRows(inflight[k].req))
    /\ Answered("list") /\ resp'.status = 200 =>
        LET b == resp'.body IN
        /\ b.total = Cardinality(SelectedRows(resp'.req))
        /\ \A i \in 1..Len(b.items) : b.items[i] \in SelectedRows(resp'.req)
        /\ \A i, j \in 1..Len(b.items) : i # j => b.items[i] # b.items[j]
        /\ (b.page - 1) * b.limit <= MaxInt =>
                Len(b.items) = PageSize(b.total, b.page, b.limit)

\* C16: for every filter (query, tag, favorite) and every page and limit,
\* the total of a list response is the number of stored notes the filter
\* selects, which does not depend on page and limit; the items are distinct
\* notes selected by the same filter, as many as the page holds out of total.
C16_TotalCountsFilter == [][C16_Step]_vars

\* page 2 of limit 1 of the notes that are not favorites: one item, total 2
C16_Witness ==
    /\ resp.by = "handler"
    /\ resp.req.route = "list"
    /\ resp.status = 200
    /\ resp.req.favorite = <<"f", "a", "l", "s", "e">>
    /\ resp.req.query = <<>> /\ resp.req.tag = <<>>
    /\ resp.body.page = 2
    /\ resp.body.total = 2
    /\ Len(resp.body.items) = 1
    /\ Cardinality(notes) = 3

\* the notes each dimension of the filter admits
QueryAdmits(req) ==
    {n \in notes : QueryOf(req) = <<>> \/ ILikeContains(n.title, QueryOf(req))
                                       \/ ILikeContains(n.content, QueryOf(req))}

TagAdmits(req) ==
    {n \in notes : TagOf(req) = <<>> \/ TagOf(req) \in {n.tags[i] : i \in 1..Len(n.tags)}}

FavoriteAdmits(req) ==
    {n \in notes : ~FavoriteGiven(req) \/ n.is_favorite = FavoriteOf(req)}

\* the response holds the whole result: first page, no fewer places than notes
WholeResult(b) == b.page = 1 /\ b.limit >= Cardinality(notes)

ItemSet(b) == {b.items[i] : i \in 1..Len(b.items)}

C18_Step ==
    Answered("list") /\ resp'.status = 200 /\ WholeResult(resp'.body) =>
        LET req == resp'.req
            b == resp'.body IN
        /\ ItemSet(b) = QueryAdmits(req) \cap TagAdmits(req) \cap FavoriteAdmits(req)
        /\ QueryOf(req) = <<>> => QueryAdmits(req) = notes
        /\ TagOf(req) = <<>> => TagAdmits(req) = notes
        /\ ~FavoriteGiven(req) => FavoriteAdmits(req) = notes
        /\ QueryOf(req) = <<>> /\ TagOf(req) = <<>> /\ ~FavoriteGiven(req) =>
                ItemSet(b) = notes /\ b.total = Cardinality(notes)

\* C18: a list response that holds the whole result holds exactly the notes
\* admitted by all three dimensions of the filter: (query empty after
\* trimming, or the query matches title or content) and (tag empty after
\* trimming, or tag is an element of the note's tag list) and (favorite
\* absent, or is_favorite equals it); an absent dimension admits every note,
\* and with all three absent the response holds every stored note.
C18_FilterIsConjunction == [][C18_Step]_vars

\* all three dimensions given: of three notes, two have the tag, two match
\* the query, one is a favorite, and the response holds the one note that
\* passes all three
C18_Witness ==
    /\ resp.by = "handler"
    /\ resp.req.route = "list"
    /\ resp.status = 200
    /\ resp.req.query = <<"a">>
    /\ resp.req.tag = <<" ", "a", " ">>
    /\ resp.req.favorite = <<"t", "r", "u", "e">>
    /\ resp.req.page = <<>>
    /\ Cardinality(notes) = 3
    /\ Cardinality(TagAdmits(resp.req)) = 2
    /\ Cardinality(QueryAdmits(resp.req)) = 2
    /\ Len(resp.body.items) = 1
    /\ resp.body.items[1].id = 1

\* s with its upper-case letters replaced by the lower-case ones
Fold(s) ==
    [i \in 1..Len(s) |->
        CASE s[i] = "A" -> "a" [] s[i] = "B" -> "b" [] s[i] = "T" -> "t" [] OTHER -> s[i]]

\* q occurs in text as a contiguous substring, letter case aside
Occurs(q, text) ==
    \E i \in 0..(Len(text) - Len(q)) : SubSeq(Fold(text), i + 1, i + Len(q)) = Fold(q)

\* the query has none of the characters LIKE gives a meaning to
PlainQuery(q) == \A i \in 1..Len(q) : q[i] \notin {"%", "_", "\\"}

\* a list response to a request that filters by query alone and holds the
\* whole result is written in this step
QueryAnswered ==
    /\ Answered("list")
    /\ resp'.status = 200
    /\ WholeResult(resp'.body)
    /\ QueryOf(resp'.req) # <<>>
    /\ TagOf(resp'.req) = <<>>
    /\ ~FavoriteGiven(resp'.req)

C19_Step ==
    QueryAnswered =>
        ItemSet(resp'.body) =
            {n \in notes : Occurs(QueryOf(resp'.req), n.title)
                            \/ Occurs(QueryOf(resp'.req), n.content)}

\* C19: for every non-empty query q, the characters % _ \ included, list
\* returns a note iff q occurs, letter case aside, as a contiguous substring
\* of the note's title or of its content.
C19_QueryIsSubstring == [][C19_Step]_vars

\* the same for the queries without the characters % _ \
C19_PlainQueryIsSubstring == [][PlainQuery(QueryOf(resp'.req)) => C19_Step]_vars

\* the query % has returned a note in which % does not occur
C19_WildcardReturned ==
    /\ resp.by = "handler"
    /\ resp.req.route = "list"
    /\ resp.status = 200
    /\ resp.req.query = <<"%">> /\ resp.req.tag = <<>> /\ resp.req.favorite = <<>>
    /\ \E i \in 1..Len(resp.body.items) :
        /\ ~Occurs(<<"%">>, resp.body.items[i].title)
        /\ ~Occurs(<<"%">>, resp.body.items[i].content)

\* the query \ has not returned a stored note in whose content \ occurs
C19_BackslashMissed ==
    /\ resp.by = "handler"
    /\ resp.req.route = "list"
    /\ resp.status = 200
    /\ resp.req.query = <<"\\">> /\ resp.req.tag = <<>> /\ resp.req.favorite = <<>>
    /\ resp.req.page = <<>>
    /\ \E n \in notes : Occurs(<<"\\">>, n.content) /\ n \notin ItemSet(resp.body)

\* the raw parameter is a decimal number of the int range greater than zero
PositiveNumber(raw) == raw # <<>> /\ Atoi(raw).ok /\ Atoi(raw).value > 0

\* the page and the limit in effect for the raw parameters
EffectivePage(raw) == IF PositiveNumber(raw) THEN Atoi(raw).value ELSE 1

EffectiveLimit(raw) ==
    IF ~PositiveNumber(raw) THEN 30
    ELSE IF Atoi(raw).value > 100 THEN 100
    ELSE Atoi(raw).value

C20_Step ==
    \* the values the handler computes for a request, whatever its outcome
    /\ \A k \in Slots :
        inflight[k].pc \in {"authorized", "counted"} =>
            /\ ListPageNo(inflight[k].req) = EffectivePage(inflight[k].req.page)
            /\ ListPageNo(inflight[k].req) >= 1
            /\ ListLimit(inflight[k].req) = EffectiveLimit(inflight[k].req.limit)
            /\ ListLimit(inflight[k].req) \in 1..100
    \* the values and the items of a response
    /\ Answered("list") /\ resp'.status = 200 =>
        LET b == resp'.body IN
        /\ b.page >= 1
        /\ b.limit \in 1..100
        /\ b.page = EffectivePage(resp'.req.page)
        /\ b.limit = EffectiveLimit(resp'.req.limit)
        /\ Len(b.items) <= b.limit

\* C20: for every raw page and limit parameter (absent, non-numeric, zero,
\* negative or positive), a list response has page >= 1 (1 when the
\* parameter is absent, unparsable or not positive) and limit in 1..100 (30
\* when absent, unparsable or not positive, 100 when above 100), and holds
\* no more items than limit.
C20_PageAndLimitInRange == [][C20_Step]_vars

\* page=-1 and limit=101 are answered with page 1 and limit 100
C20_Witness ==
    /\ resp.by = "handler"
    /\ resp.req.route = "list"
    /\ resp.status = 200
    /\ resp.req.page = <<"-", "1">>
    /\ resp.req.limit = <<"1", "0", "1">>
    /\ resp.body.page = 1
    /\ resp.body.limit = 100
    /\ Len(resp.body.items) = 3

\* limit=2 cuts a result of three notes to two items
C20_WitnessCut ==
    /\ resp.by = "handler"
    /\ resp.req.route = "list"
    /\ resp.status = 200
    /\ resp.req.limit = <<"2">>
    /\ resp.body.total = 3
    /\ Len(resp.body.items) = 2

----------------------------------------------------------------------------
(* One update, then unfiltered list calls *)

\* the update submits a content; the stored notes have none
OrderBody ==
    [ok |-> TRUE, title |-> <<"t">>, content |-> <<"x">>, tags |-> <<>>,
     is_favorite |-> FALSE]

OrderListRequests ==
    {[route |-> "list", cookie |-> ValidCookie, query |-> <<>>, tag |-> <<>>,
      favorite |-> <<>>, page |-> <<>>, limit |-> lm] : lm \in {<<>>, <<"1">>}}

\* MaxNotes + 1 notes without content are stored, each created and last
\* written at some earlier clock reading, and an update of one of them has
\* just passed the gate
OrderInit ==
    /\ now = 1
    /\ sessions = {SessionRow(1, 1)}
    /\ rngUsed = {<<TokenChars[1]>>}
    /\ noteUuids = MaxNotes + 1
    /\ \E c \in [1..(MaxNotes + 1) -> 0..1], u \in [1..(MaxNotes + 1) -> 0..1] :
        /\ \A i \in 1..(MaxNotes + 1) : c[i] <= u[i]
        /\ \A i, j \in 1..(MaxNotes + 1) : i < j => c[i] <= c[j]
        /\ notes = {NoteOf(i, EmptyBody, c[i], u[i]) : i \in 1..(MaxNotes + 1)}
    /\ \E i \in 1..(MaxNotes + 1) :
        LET req == [route |-> "update", cookie |-> ValidCookie,
                    id |-> [ok |-> TRUE, uuid |-> i], body |-> OrderBody] IN
        /\ inflight = [k \in {1} |->
                [pc |-> "authorized", req |-> req, token |-> <<TokenChars[1]>>]]
        /\ resp = Answer(req, "gate", "ok", 0, Pending, NoSetCookie)
    /\ dir = {InitSql}
    /\ ledgerTable = TRUE
    /\ ledger = {[name |-> InitSql.name, applied_at |-> 0]}
    /\ schema = (InitSql.name :> 1)
    /\ mig = [p \in {1} |-> [MigStopped EXCEPT !.pc = "done", !.names = <<InitSql.name>>,
                                               !.i = 2, !.executed = <<InitSql.name>>]]
    /\ editor = NoEditor

\* the update runs; after it the client lists the notes
OrderNext ==
    \/ \E k \in Slots, dbOk \in BOOLEAN : HandleUpdateNote(k, dbOk) /\ UNCHANGED <<migVars, editor>>
    \/ \E k \in Slots, dbOk \in BOOLEAN :
         \E req \in OrderListRequests : RequireSession(k, req, dbOk) /\ UNCHANGED <<migVars, editor>>
    \/ \E k \in Slots, dbOk \in BOOLEAN : HandleListCount(k, dbOk) /\ UNCHANGED <<migVars, editor>>
    \/ \E k \in Slots, dbOk \in BOOLEAN : HandleListPage(k, dbOk) /\ UNCHANGED <<migVars, editor>>
    \/ Tick /\ UNCHANGED <<migVars, editor>>

SpecOrder == OrderInit /\ [][OrderNext]_vars

\* the note the one update of this specification has written: the only
\* stored note with a content
WasUpdated(n) == n \in notes /\ n.content = <<"x">>

SortedByUpdatedDesc(items) ==
    \A i, j \in 1..Len(items) : i < j => items[i].updated_at >= items[j].updated_at

\* page 1 of an unfiltered list call is answered in this step
FirstPageAnswered ==
    /\ Answered("list")
    /\ resp'.status = 200
    /\ resp'.body.page = 1
    /\ QueryOf(resp'.req) = <<>> /\ TagOf(resp'.req) = <<>> /\ ~FavoriteGiven(resp'.req)

C17_StepFirst ==
    FirstPageAnswered =>
        /\ SortedByUpdatedDesc(resp'.body.items)
        /\ \A n \in notes : WasUpdated(n) =>
                Len(resp'.body.items) >= 1 /\ resp'.body.items[1] = n

\* C17 as stated: list results are sorted by updated_at descending, and
\* after an update of a note, with no other write in between, that note is
\* the first item of page 1 of an unfiltered list call.
C17_UpdatedNoteFirst == [][C17_StepFirst]_vars

C17_StepLeads ==
    FirstPageAnswered =>
        /\ SortedByUpdatedDesc(resp'.body.items)
        /\ \A n \in notes : WasUpdated(n) =>
            /\ Len(resp'.body.items) >= 1
            /\ \A i \in 1..Len(resp'.body.items) :
                (\A j \in 1..i : resp'.body.items[j] # n) =>
                    resp'.body.items[i].updated_at = n.updated_at
            /\ (\A m \in notes : m # n => m.updated_at # n.updated_at) =>
                    resp'.body.items[1] = n

\* C17, amended: list results are sorted by updated_at descending, and
\* after an update of a note, with no other write in between, every item
\* that precedes that note on page 1 of an unfiltered list call has the
\* same updated_at as the note; the note is the first item when no other
\* note was last written at the same clock reading.
C17_UpdatedNoteLeads == [][C17_StepLeads]_vars

\* the updated note is the first item, ahead of a note written earlier
C17_Witness ==
    /\ resp.by = "handler"
    /\ resp.req.route = "list"
    /\ resp.status = 200
    /\ Len(resp.body.items) >= 2
    /\ WasUpdated(resp.body.items[1])
    /\ resp.body.items[1].id = 2
    /\ resp.body.items[1].updated_at > resp.body.items[2].updated_at

\* the updated note comes second, behind a note written at the same clock
\* reading
C17_WitnessTie ==
    /\ resp.by = "handler"
    /\ resp.req.route = "list"
    /\ resp.status = 200
    /\ Len(resp.body.items) >= 2
    /\ WasUpdated(resp.body.items[2])
    /\ resp.body.items[1].updated_at = resp.body.items[2].updated_at

----------------------------------------------------------------------------
(* One request, well-formed or not, against a store of up to MaxNotes + 1
   notes *)

\* a request body whose first JSON value decodes, followed by the bytes in
\* rest, which Decode leaves unread
WithRest(body, rest) ==
    [ok |-> TRUE, title |-> body.title, content |-> body.content, tags |-> body.tags,
     is_favorite |-> body.is_favorite, rest |-> rest]

FavoriteWithRest(value, rest) == [ok |-> TRUE, value |-> value, rest |-> rest]

\* {"title":"t","is_favorite":true}, the same followed by x, and a body
\* Decode fails on
CheckedNoteBodies ==
    {WithRest([EmptyBody EXCEPT !.title = <<"t">>, !.is_favorite = TRUE], rest) :
        rest \in {<<>>, <<"x">>}}
    \cup {BadJson}

CheckedFavoriteBodies ==
    {FavoriteWithRest(TRUE, rest) : rest \in {<<>>, <<"x">>}} \cup {BadJson}

CheckedRequests ==
    {[route |-> "list", cookie |-> ValidCookie, query |-> <<>>, tag |-> <<>>,
      favorite |-> f, page |-> <<>>, limit |-> <<>>] :
        f \in {<<>>, <<"1">>, <<"2">>, <<"y", "e", "s">>}}
    \cup {[route |-> "create", cookie |-> ValidCookie, body |-> b] : b \in CheckedNoteBodies}
    \cup {[route |-> r, cookie |-> ValidCookie, id |-> i] :
            r \in {"get", "delete"}, i \in IdParams}
    \cup {[route |-> "update", cookie |-> ValidCookie, id |-> i, body |-> b] :
            i \in IdParams, b \in CheckedNoteBodies}
    \cup {[route |-> "favorite", cookie |-> ValidCookie, id |-> i, body |-> b] :
            i \in IdParams, b \in CheckedFavoriteBodies}

\* any of the notes 1..MaxNotes + 1 is stored and a request has just passed
\* the gate
CheckedInit ==
    /\ now = 1
    /\ sessions = {SessionRow(1, 0)}
    /\ rngUsed = {<<TokenChars[1]>>}
    /\ noteUuids = MaxNotes + 1
    /\ notes \in SUBSET {NoteOf(i, EmptyBody, 0, 0) : i \in 1..(MaxNotes + 1)}
    /\ \E req \in CheckedRequests :
        /\ inflight = [k \in {1} |->
                [pc |-> "authorized", req |-> req, token |-> <<TokenChars[1]>>]]
        /\ resp = Answer(req, "gate", "ok", 0, Pending, NoSetCookie)
    /\ dir = {InitSql}
    /\ ledgerTable = TRUE
    /\ ledger = {[name |-> InitSql.name, applied_at |-> 0]}
    /\ schema = (InitSql.name :> 1)
    /\ mig = [p \in {1} |-> [MigStopped EXCEPT !.pc = "done", !.names = <<InitSql.name>>,
                                               !.i = 2, !.executed = <<InitSql.name>>]]
    /\ editor = NoEditor

CheckedNext ==
    \/ \E k \in Slots, dbOk \in BOOLEAN : HandleListCount(k, dbOk) /\ UNCHANGED <<migVars, editor>>
    \/ \E k \in Slots, dbOk \in BOOLEAN : HandleListPage(k, dbOk) /\ UNCHANGED <<migVars, editor>>
    \/ \E k \in Slots, dbOk \in BOOLEAN : HandleGetNote(k, dbOk) /\ UNCHANGED <<migVars, editor>>
    \/ \E k \in Slots, dbOk \in BOOLEAN : HandleCreateNote(k, dbOk) /\ UNCHANGED <<migVars, editor>>
    \/ \E k \in Slots, dbOk \in BOOLEAN : HandleUpdateNote(k, dbOk) /\ UNCHANGED <<migVars, editor>>
    \/ \E k \in Slots, dbOk \in BOOLEAN : HandleDeleteNote(k, dbOk) /\ UNCHANGED <<migVars, editor>>
    \/ \E k \in Slots, dbOk \in BOOLEAN : HandleFavoriteNote(k, dbOk) /\ UNCHANGED <<migVars, editor>>

SpecChecked == CheckedInit /\ [][CheckedNext]_vars

\* the request names a note and the name is not a UUID
MalformedId(req) == req.route \in {"get", "update", "delete", "favorite"} /\ ~req.id.ok

\* the favorite parameter of a list request is given and is not a boolean
MalformedFavorite(req) ==
    /\ req.route = "list"
    /\ FavoriteGiven(req)
    /\ TrimSpace(req.favorite) \notin
            {<<"1">>, <<"t">>, <<"T">>, <<"t", "r", "u", "e">>, <<"T", "R", "U", "E">>,
             <<"T", "r", "u", "e">>, <<"0">>, <<"f">>, <<"F">>, <<"f", "a", "l", "s", "e">>,
             <<"F", "A", "L", "S", "E">>, <<"F", "a", "l", "s", "e">>}

\* the request carries a body on which Decode fails
UndecodableBody(req) == req.route \in {"create", "update", "favorite"} /\ ~req.body.ok

\* the request carries a body that is not one JSON document: Decode fails on
\* it, or bytes follow its first value
MalformedBody(req) ==
    /\ req.route \in {"create", "update", "favorite"}
    /\ ~req.body.ok \/ req.body.rest # <<>>

\* the handler answers in this step
HandlerAnswers == resp' # resp /\ resp'.by = "handler"

\* the answer is 400 and the store is as before
Rejected400 == resp'.status = 400 /\ notes' = notes

C21_Step ==
    HandlerAnswers =>
        /\ MalformedId(resp'.req) \/ MalformedFavorite(resp'.req) \/ MalformedBody(resp'.req)
                => Rejected400
        /\ MalformedId(resp'.req) => resp'.body = ErrorBody("invalid id")

\* C21: an authorized request with a malformed note id, a non-boolean
\* favorite parameter or a malformed JSON body is answered 400 and no note
\* is created, modified or deleted; a malformed id is answered as such
\* whatever the body is.
C21_InvalidRejected == [][C21_Step]_vars

C21_StepDecode ==
    HandlerAnswers =>
        /\ MalformedId(resp'.req) \/ MalformedFavorite(resp'.req) \/ UndecodableBody(resp'.req)
                => Rejected400
        /\ MalformedId(resp'.req) => resp'.body = ErrorBody("invalid id")

\* the same for the bodies on which Decode fails
C21_UndecodableRejected == [][C21_StepDecode]_vars

\* a create whose body is a JSON object followed by x has stored a note
C21_TrailingStored ==
    /\ resp.by = "handler"
    /\ resp.req.route = "create"
    /\ resp.req.body.ok /\ resp.req.body.rest = <<"x">>
    /\ resp.status = 201
    /\ resp.body.note \in notes

\* an update with a malformed id and an undecodable body is answered
\* "invalid id"
C21_IdBeforeBody ==
    /\ resp.by = "handler"
    /\ resp.req.route = "update"
    /\ ~resp.req.id.ok /\ ~resp.req.body.ok
    /\ resp.status = 400
    /\ resp.body = ErrorBody("invalid id")

----------------------------------------------------------------------------
(* Requests for notes that are not stored *)

IsStored(i) == \E n \in notes : n.id = i

ById == {"get", "update", "delete", "favorite"}

C22_Step ==
    \A route \in ById :
        Answered(route) /\ resp'.req.id.ok =>
            \* the statement runs and finds no row: 404, nothing changes
            /\ ~IsStored(resp'.req.id.uuid) =>
                /\ notes' = notes
                /\ resp'.exec = "ok" => resp'.status = 404
            \* 404 is answered for no other reason
            /\ resp'.status = 404 => ~IsStored(resp'.req.id.uuid) /\ notes' = notes
            \* no note appears
            /\ route # "get" => \A n \in notes' : \E m \in notes : m.id = n.id

\* C22: get, update, delete and setFavorite on an id that is not in the
\* store are answered 404 when their statement runs and leave every stored
\* note as it is; update and setFavorite never add a note; once delete(i)
\* has succeeded no note with id i is stored again, so that a second
\* delete(i) is answered 404.
C22_NotFound ==
    /\ [][C22_Step]_vars
    /\ \A i \in 1..MaxNotes :
        [](LastAnswer("delete", i) /\ resp.status = 204 => [](~IsStored(i)))

\* a delete of a note that was created and is no longer stored is answered
\* 404
C22_Witness ==
    /\ LastAnswer("delete", 1)
    /\ resp.status = 404
    /\ noteUuids >= 1
    /\ notes = {}

----------------------------------------------------------------------------
(* Two clients update the same note at the same time *)

\* two payloads that differ in every field
RaceBodies ==
    {[ok |-> TRUE, title |-> <<" ", "a">>, content |-> <<"a">>,
      tags |-> << <<"A">> >>, is_favorite |-> TRUE],
     [ok |-> TRUE, title |-> <<"b">>, content |-> <<" ", "b">>,
      tags |-> << <<"b">>, <<"B">>, <<"t">> >>, is_favorite |-> FALSE]}

RaceRequests ==
    {[route |-> "update", cookie |-> ValidCookie, id |-> [ok |-> TRUE, uuid |-> 1],
      body |-> b] : b \in RaceBodies}

\* note 1 is stored as created from {} and two requests can be in flight
RaceInit ==
    /\ now = 0
    /\ sessions = {SessionRow(1, 0)}
    /\ rngUsed = {<<TokenChars[1]>>}
    /\ noteUuids = 1
    /\ notes = {NoteOf(1, EmptyBody, 0, 0)}
    /\ inflight = [k \in {1, 2} |-> Idle]
    /\ resp = Answer(NoRequest, "none", "none", 0, [kind |-> "none"], NoSetCookie)
    /\ dir = {InitSql}
    /\ ledgerTable = TRUE
    /\ ledger = {[name |-> InitSql.name, applied_at |-> 0]}
    /\ schema = (InitSql.name :> 1)
    /\ mig = [p \in {1} |-> [MigStopped EXCEPT !.pc = "done", !.names = <<InitSql.name>>,
                                               !.i = 2, !.executed = <<InitSql.name>>]]
    /\ editor = NoEditor

RaceNext ==
    \/ \E k \in Slots, dbOk \in BOOLEAN :
         \E req \in RaceRequests : RequireSession(k, req, dbOk) /\ UNCHANGED <<migVars, editor>>
    \/ \E k \in Slots, dbOk \in BOOLEAN : HandleUpdateNote(k, dbOk) /\ UNCHANGED <<migVars, editor>>
    \/ Tick /\ UNCHANGED <<migVars, editor>>

SpecRace == RaceInit /\ [][RaceNext]_vars

\* the four fields of a note are those of the payload, normalized
HoldsPayload(n, b) ==
    /\ n.title = NormalizeTitle(b.title)
    /\ n.content = b.content
    /\ n.tags = sanitizeTags(b.tags)
    /\ n.is_favorite = b.is_favorite

C23_Step ==
    \* the stored note holds one payload as a whole
    /\ \A n \in notes' : \E b \in RaceBodies \cup {EmptyBody} : HoldsPayload(n, b)
    \* an update that succeeds stores its payload and answers with the row
    \* it stored
    /\ Answered("update") /\ resp'.status = 200 =>
        /\ resp'.body.note \in notes'
        /\ HoldsPayload(resp'.body.note, resp'.req.body)
    \* the note changes in no other step
    /\ notes' # notes => Answered("update") /\ resp'.status = 200

\* C23: when two update requests for the same note run concurrently, the
\* stored note holds at every moment the normalized title, content, tags
\* and is_favorite of one single payload, never fields of both: each
\* update that succeeds replaces all four with its own payload and answers
\* with the row as it wrote it, so the note is left as the update committed
\* last wrote it.
C23_LastCommitWins == [][C23_Step]_vars

\* one update has been answered while the other, admitted before that
\* answer, is still in flight: the response and the note hold the payload
\* of the update that ran
C23_Witness ==
    /\ resp.by = "handler"
    /\ resp.req.route = "update"
    /\ resp.status = 200
    /\ resp.req.body.title = <<"b">>
    /\ resp.body.note \in notes
    /\ resp.body.note.tags = << <<"b">>, <<"t">> >>
    /\ \E k \in Slots : /\ inflight[k].pc = "authorized"
                        /\ inflight[k].req.body.title = <<" ", "a">>

----------------------------------------------------------------------------
(* Updates and setFavorite calls on a store of MaxNotes + 1 notes *)

RewriteBodies ==
    {[ok |-> TRUE, title |-> <<"t">>, content |-> <<"x">>, tags |-> << <<"A">> >>,
      is_favorite |-> TRUE]}

RewriteRequests ==
    {[route |-> "update", cookie |-> ValidCookie, id |-> [ok |-> TRUE, uuid |-> i],
      body |-> b] : i \in 1..(MaxNotes + 1), b \in RewriteBodies}
    \cup {[route |-> "favorite", cookie |-> ValidCookie, id |-> [ok |-> TRUE, uuid |-> i],
           body |-> [ok |-> TRUE, value |-> v]] : i \in 1..(MaxNotes + 1), v \in BOOLEAN}

\* the notes have just been created from {}
RewriteInit ==
    /\ now = 0
    /\ sessions = {SessionRow(1, 0)}
    /\ rngUsed = {<<TokenChars[1]>>}
    /\ noteUuids = MaxNotes + 1
    /\ notes = {NoteOf(i, EmptyBody, 0, 0) : i \in 1..(MaxNotes + 1)}
    /\ inflight = [k \in {1} |-> Idle]
    /\ resp = Answer(NoRequest, "none", "none", 0, [kind |-> "none"], NoSetCookie)
    /\ dir = {InitSql}
    /\ ledgerTable = TRUE
    /\ ledger = {[name |-> InitSql.name, applied_at |-> 0]}
    /\ schema = (InitSql.name :> 1)
    /\ mig = [p \in {1} |-> [MigStopped EXCEPT !.pc = "done", !.names = <<InitSql.name>>,
                                               !.i = 2, !.executed = <<InitSql.name>>]]
    /\ editor = NoEditor

RewriteNext ==
    \/ \E k \in Slots, dbOk \in BOOLEAN :
         \E req \in RewriteRequests : RequireSession(k, req, dbOk) /\ UNCHANGED <<migVars, editor>>
    \/ \E k \in Slots, dbOk \in BOOLEAN : HandleUpdateNote(k, dbOk) /\ UNCHANGED <<migVars, editor>>
    \/ \E k \in Slots, dbOk \in BOOLEAN : HandleFavoriteNote(k, dbOk) /\ UNCHANGED <<migVars, editor>>
    \/ Tick /\ UNCHANGED <<migVars, editor>>

SpecRewrite == RewriteInit /\ [][RewriteNext]_vars

C24_Step ==
    \* every note keeps its id and its created_at
    /\ \A n \in notes : \E m \in notes' : m.id = n.id /\ m.created_at = n.created_at
    /\ \A m \in notes' : \E n \in notes : m.id = n.id /\ m.created_at = n.created_at
    \* setFavorite writes is_favorite and updated_at of the addressed note
    \* and nothing else
    /\ Answered("favorite") /\ resp'.status = 200 =>
        /\ \A n \in notes : n.id # resp'.req.id.uuid => n \in notes'
        /\ \E n \in notes :
            /\ n.id = resp'.req.id.uuid
            /\ resp'.body.note = [n EXCEPT !.is_favorite = resp'.req.body.value,
                                           !.updated_at = now]
            /\ notes' = (notes \ {n}) \cup {resp'.body.note}
    \* update leaves every other note as it is
    /\ Answered("update") /\ resp'.status = 200 =>
        \A n \in notes : n.id # resp'.req.id.uuid => n \in notes'

\* C24: under every sequence of update and setFavorite calls every note
\* keeps its id and its created_at; setFavorite changes is_favorite and
\* updated_at of the addressed note and leaves its title, content and tags
\* and every other note as they are.
C24_FavoriteWritesFlagOnly == [][C24_Step]_vars

\* setFavorite has cleared the flag of a note updated before: title,
\* content and tags are those of the update, created_at is that of the
\* insert, and the other note is as it was created
C24_Witness ==
    /\ resp.by = "handler"
    /\ resp.req.route = "favorite"
    /\ resp.status = 200
    /\ resp.body.note \in notes
    /\ resp.body.note.id = 1
    /\ resp.body.note.title = <<"t">>
    /\ resp.body.note.content = <<"x">>
    /\ resp.body.note.tags = << <<"a">> >>
    /\ ~resp.body.note.is_favorite
    /\ resp.body.note.created_at = 0
    /\ resp.body.note.updated_at > 0
    /\ NoteOf(2, EmptyBody, 0, 0) \in notes

----------------------------------------------------------------------------
(* Logout when the delete statement fails *)

\* a logout carrying a non-blank session cookie is answered 200 {ok:true}
LogoutAcknowledged ==
    /\ LogoutStep
    /\ resp'.req.cookie.present
    /\ TrimSpace(resp'.req.cookie.value) # <<>>
    /\ resp'.status = 200
    /\ resp'.body = OkBody

C25_Step ==
    LogoutAcknowledged => \A s \in sessions' : s.token # resp'.req.cookie.value

\* C25: whenever a logout request carrying a non-blank session cookie is
\* answered 200 {ok:true}, no session row with the presented token remains
\* in the store, also when the delete statement fails.
C25_AcknowledgedLogoutRevokes == [][C25_Step]_vars

\* the same for the logouts whose delete statement runs
C25_CompletedLogoutRevokes == [][resp'.exec = "ok" => C25_Step]_vars

\* a logout was answered 200 {ok:true}, its delete failed, and the session
\* of the presented token is still valid
C25_RowSurvives ==
    /\ resp.req.route = "logout"
    /\ resp.status = 200
    /\ resp.body = OkBody
    /\ resp.exec = "error"
    /\ \E s \in sessions : s.token = resp.req.cookie.value /\ s.expires_at > now

----------------------------------------------------------------------------
(* Two migrator processes against one store *)

\* two instances are deployed with the same migrations directory on an empty
\* store
PairInit ==
    /\ now = 0
    /\ sessions = {}
    /\ rngUsed = {}
    /\ noteUuids = 0
    /\ notes = {}
    /\ inflight = [k \in {1} |-> Idle]
    /\ resp = Answer(NoRequest, "none", "none", 0, [kind |-> "none"], NoSetCookie)
    /\ dir = DirEntries
    /\ ledgerTable = FALSE
    /\ ledger = {}
    /\ schema = <<>>
    /\ mig = [p \in {1, 2} |-> MigStopped]
    /\ editor = NoEditor

PairNext ==
    \/ \E p \in Procs : StartProcess(p) /\ UNCHANGED <<authVars, editor>>
    \/ \E p \in Procs, dbOk \in BOOLEAN : EnsureMigrationsTable(p, dbOk) /\ UNCHANGED <<authVars, editor>>
    \/ \E p \in Procs, ioOk \in BOOLEAN : ReadDir(p, ioOk) /\ UNCHANGED <<authVars, editor>>
    \/ \E p \in Procs, dbOk \in BOOLEAN : CheckApplied(p, dbOk) /\ UNCHANGED <<authVars, editor>>
    \/ \E p \in Procs, ioOk \in BOOLEAN : ReadFile(p, ioOk) /\ UNCHANGED <<authVars, editor>>
    \/ \E p \in Procs, dbOk \in BOOLEAN : BeginTx(p, dbOk) /\ UNCHANGED <<authVars, editor>>
    \/ \E p \in Procs, dbOk \in BOOLEAN : ExecContent(p, dbOk) /\ UNCHANGED <<authVars, editor>>
    \/ \E p \in Procs, dbOk \in BOOLEAN : InsertLedger(p, dbOk) /\ UNCHANGED <<authVars, editor>>
    \/ \E p \in Procs, dbOk \in BOOLEAN : CommitTx(p, dbOk) /\ UNCHANGED <<authVars, editor>>

SpecPair == PairInit /\ [][PairNext]_vars

\* the process has executed the file of the name in a transaction that is
\* still open
HoldsCopy(p, name) == mig[p].tx.open /\ name \in mig[p].tx.schema

C26_Step ==
    \* each schema change is committed at most once, each name is in the
    \* ledger at most once, and the ledger names the committed changes
    /\ \A n \in DOMAIN schema' : schema'[n] <= 1
    /\ \A r1, r2 \in ledger' : r1.name = r2.name => r1 = r2
    /\ {r.name : r \in ledger'} = {n \in DOMAIN schema' : schema'[n] = 1}
    \* no process reaches its commit with a name another one has committed
    /\ \A p \in Procs : mig'[p].pc = "commit" => ~\E r \in ledger' : r.name = mig'[p].names[mig'[p].i]
    \* a process that holds a copy of a change another process has committed
    \* can only fail, and its copy is rolled back
    /\ \A p \in Procs :
        (\E n \in DOMAIN schema : HoldsCopy(p, n) /\ LedgerHas(n)) /\ mig'[p] # mig[p] =>
            /\ mig'[p].pc = "failed"
            /\ mig'[p].tx = NoTx
            /\ schema' = schema
            /\ ledger' = ledger

\* C26: when two migrator processes run concurrently against the same
\* store, each migration file's schema change is committed at most once and
\* the ledger holds at most one entry per name: a process that has executed
\* a file another process commits first fails on the ledger insert, rolls
\* back its copy of the schema change and aborts startup.
C26_OneCommitPerFile == [][C26_Step]_vars

\* both processes executed 1.sql in this run; one committed it, the other
\* failed and holds no transaction
C26_Witness ==
    /\ \E n \in DOMAIN schema :
        /\ schema[n] = 1
        /\ mig[2].pc = "failed"
        /\ mig[2].tx = NoTx
        /\ mig[2].executed = <<n>>
        /\ mig[2].ledgerAtStart = {}
        /\ mig[1].executed # <<>>
        /\ mig[1].executed[1] = n
        /\ mig[1].ledgerAtStart = {}
        /\ mig[1].pc \notin {"failed", "stopped"}

----------------------------------------------------------------------------
(* The row offset of a list request *)

\* (page - 1) * limit as a product of integers
ExactOffset(req) == (ListPageNo(req) - 1) * ListLimit(req)

ListPending(k) ==
    inflight[k].pc \in {"authorized", "counted"} /\ inflight[k].req.route = "list"

\* C27: for every page value that parses as a positive machine integer and
\* every effective limit in 1..100, the row offset the handler computes is
\* not negative and equals the product (page - 1) * limit of the integers.
C27_OffsetExact ==
    \A k \in Slots :
        ListPending(k) /\ PositiveNumber(inflight[k].req.page) =>
            /\ ListLimit(inflight[k].req) \in 1..100
            /\ ListOffset(inflight[k].req) >= 0
            /\ ListOffset(inflight[k].req) = ExactOffset(inflight[k].req)

\* the offset is the product whenever the product is inside the int range
C27_OffsetExactInRange ==
    \A k \in Slots :
        ListPending(k) /\ ExactOffset(inflight[k].req) <= MaxInt =>
            /\ ListOffset(inflight[k].req) >= 0
            /\ ListOffset(inflight[k].req) = ExactOffset(inflight[k].req)

\* a request whose offset wrapped below zero is answered 500 although the
\* count statement ran
C27_WrappedFails ==
    /\ resp.by = "handler"
    /\ resp.req.route = "list"
    /\ PositiveNumber(resp.req.page)
    /\ ListOffset(resp.req) < 0
    /\ resp.status = 500

\* no list request with a wrapped offset is answered 200
C27_WrappedNeverServed ==
    resp.by = "handler" /\ resp.req.route = "list" /\ ListOffset(resp.req) < 0
        => resp.status # 200

----------------------------------------------------------------------------
(* A list request while another client creates and deletes notes *)

MixedRequests ==
    {[route |-> "list", cookie |-> ValidCookie, query |-> <<>>, tag |-> <<>>,
      favorite |-> <<>>, page |-> <<>>, limit |-> lm] : lm \in {<<>>, <<"1">>}}
    \cup {[route |-> "create", cookie |-> ValidCookie, body |-> EmptyBody]}
    \cup {[route |-> "delete", cookie |-> ValidCookie, id |-> i] : i \in GateIds}

\* an empty store behind a started server, two requests can be in flight
MixedInit ==
    /\ now = 0
    /\ sessions = {SessionRow(1, 0)}
    /\ rngUsed = {<<TokenChars[1]>>}
    /\ noteUuids = 0
    /\ notes = {}
    /\ inflight = [k \in {1, 2} |-> Idle]
    /\ resp = Answer(NoRequest, "none", "none", 0, [kind |-> "none"], NoSetCookie)
    /\ dir = {InitSql}
    /\ ledgerTable = TRUE
    /\ ledger = {[name |-> InitSql.name, applied_at |-> 0]}
    /\ schema = (InitSql.name :> 1)
    /\ mig = [p \in {1} |-> [MigStopped EXCEPT !.pc = "done", !.names = <<InitSql.name>>,
                                               !.i = 2, !.executed = <<InitSql.name>>]]
    /\ editor = NoEditor

MixedNext ==
    \/ \E k \in Slots, dbOk \in BOOLEAN :
         \E req \in MixedRequests :
            Admissible(req) /\ RequireSession(k, req, dbOk) /\ UNCHANGED <<migVars, editor>>
    \/ \E k \in Slots, dbOk \in BOOLEAN : HandleListCount(k, dbOk) /\ UNCHANGED <<migVars, editor>>
    \/ \E k \in Slots, dbOk \in BOOLEAN : HandleListPage(k, dbOk) /\ UNCHANGED <<migVars, editor>>
    \/ \E k \in Slots, dbOk \in BOOLEAN : HandleCreateNote(k, dbOk) /\ UNCHANGED <<migVars, editor>>
    \/ \E k \in Slots, dbOk \in BOOLEAN : HandleDeleteNote(k, dbOk) /\ UNCHANGED <<migVars, editor>>
    \/ Tick /\ UNCHANGED <<migVars, editor>>

SpecMixed == MixedInit /\ [][MixedNext]_vars

C28_Step ==
    Answered("list") /\ resp'.status = 200 =>
        LET b == resp'.body IN
        /\ Len(b.items) <= b.total
        /\ b.page = 1 /\ b.limit >= b.total => Len(b.items) = b.total
        \* the count is the count of the set the page was cut from
        /\ b.total = Cardinality(Matching(resp'.req))

\* C28: a list response is consistent even when creates and deletes run
\* concurrently with it: it never holds more items than total, page 1 with
\* limit >= total holds exactly total items, and the count statement and
\* the page statement observe the same set of notes.
C28_ListConsistent == [][C28_Step]_vars

C28_StepQuiet ==
    Answered("list") /\ resp'.status = 200
    /\ (\E k \in Slots : inflight[k].pc = "counted" /\ inflight'[k].pc = "idle"
                        /\ inflight[k].total = Cardinality(Matching(inflight[k].req)))
    =>
        LET b == resp'.body IN
        /\ Len(b.items) <= b.total
        /\ b.page = 1 /\ b.limit >= b.total => Len(b.items) = b.total

\* a list response is consistent when the store holds as many matching
\* notes at its page statement as at its count statement
C28_ConsistentWithoutWrite == [][C28_StepQuiet]_vars

\* a note was created between the two statements: one item, total 0
C28_MoreItemsThanTotal ==
    /\ resp.by = "handler"
    /\ resp.req.route = "list"
    /\ resp.status = 200
    /\ resp.body.total = 0
    /\ Len(resp.body.items) = 1

\* a note was deleted between the two statements: no item on page 1 of
\* limit 30, total 1
C28_FewerItemsThanTotal ==
    /\ resp.by = "handler"
    /\ resp.req.route = "list"
    /\ resp.status = 200
    /\ resp.body.page = 1
    /\ resp.body.limit = 30
    /\ resp.body.total = 1
    /\ resp.body.items = <<>>

----------------------------------------------------------------------------
(* Submitting stored tags again *)

\* C29: tag normalisation is idempotent: the tags of every stored note are
\* what sanitizeTags makes of them, so that submitting the stored tags of a
\* note on an update leaves them as they are.
C29_SanitizeIdempotent ==
    \A n \in notes : sanitizeTags(n.tags) = n.tags

\* stored tags that do not end in white space are left as they are
C29_IdempotentWithoutBlankEnd ==
    \A n \in notes :
        (\A i \in 1..Len(n.tags) : TrimSpace(n.tags[i]) = n.tags[i])
            => sanitizeTags(n.tags) = n.tags

\* a tag of 33 characters with a blank as its 32nd is stored with the blank
\* at its end; submitted again it is stored with 31 characters
C29_BlankEndStored ==
    /\ resp.by = "handler"
    /\ resp.status \in {200, 201}
    /\ \E n \in notes :
        /\ n.tags = <<LongTag(32, " ")>>
        /\ sanitizeTags(n.tags) = <<SubSeq(LongTag(32, " "), 1, 31)>>

\* two stored tags become one when they are submitted again
C29_StoredTagsCollide ==
    /\ resp.by = "handler"
    /\ resp.status \in {200, 201}
    /\ \E n \in notes :
        /\ Len(n.tags) = 2
        /\ Len(sanitizeTags(n.tags)) = 1

----------------------------------------------------------------------------
(* The browser's editor and its autosave *)

\* autosave calls one editor starts
MaxSaves == 2

RECURSIVE SplitComma(_, _, _)
\* input.split(","): the pieces of the input between its commas
SplitComma(input, piece, pieces) ==
    IF input = <<>> THEN Append(pieces, piece)
    ELSE IF Head(input) = "," THEN SplitComma(Tail(input), <<>>, Append(pieces, piece))
    ELSE SplitComma(Tail(input), Append(piece, Head(input)), pieces)

RECURSIVE AddUnique(_, _)
\* the forEach of parseTags: unique.add(tag.slice(0, 32)) for every tag but ""
AddUnique(tags, unique) ==
    IF tags = <<>> THEN unique
    ELSE LET tag == ToLower(TrimSpace(Head(tags)))
             cut == IF Len(tag) > 32 THEN SubSeq(tag, 1, 32) ELSE tag
         IN IF tag = <<>> \/ (\E i \in 1..Len(unique) : unique[i] = cut)
            THEN AddUnique(Tail(tags), unique)
            ELSE AddUnique(Tail(tags), Append(unique, cut))

\* parseTags
parseTags(input) == AddUnique(SplitComma(input, <<>>, <<>>), <<>>)

RECURSIVE tagsToInput(_)
\* tagsToInput: tags.join(", ")
tagsToInput(tags) ==
    IF tags = <<>> THEN <<>>
    ELSE IF Len(tags) = 1 THEN tags[1]
    ELSE tags[1] \o <<",", " ">> \o tagsToInput(Tail(tags))

\* toPayload, as JSON.stringify writes it
toPayload(draft) ==
    [ok |-> TRUE,
     title |-> IF TrimSpace(draft.title) = <<>> THEN Untitled ELSE TrimSpace(draft.title),
     content |-> draft.content,
     tags |-> parseTags(draft.tagsInput),
     is_favorite |-> draft.isFavorite]

\* isDraftEqual for two drafts that are not null
isDraftEqual(a, b) ==
    /\ a.title = b.title
    /\ a.content = b.content
    /\ a.tagsInput = b.tagsInput
    /\ a.isFavorite = b.isFavorite

\* the draft the selection effect makes of a note
DraftOf(n) ==
    [title |-> n.title, content |-> n.content, tagsInput |-> tagsToInput(n.tags),
     isFavorite |-> n.is_favorite]

NoTimer == [armed |-> FALSE]

\* setTimeout(..., 720) of the autosave effect, holding its snapshot
Armed(snapshot) == [armed |-> TRUE, snapshot |-> snapshot]

\* the workspace with note n selected and loaded
EditorOn(n) ==
    [open |-> TRUE, selectedId |-> n.id, draft |-> DraftOf(n), dirty |-> FALSE,
     isSaving |-> FALSE, timer |-> NoTimer, calls |-> {}, started |-> 0]

\* what the user can type into the content and tags fields
Drafts ==
    {[title |-> Untitled, content |-> c, tagsInput |-> g, isFavorite |-> FALSE] :
        c \in {<<>>, <<"x">>}, g \in {<<>>, <<"A", ",", " ", "a">>}}

\* an onChange of the editor: setDraft, setDirty(true); the autosave effect
\* runs again, clears its timeout and sets a new one
EditDraft(d) ==
    /\ editor.open
    /\ d # editor.draft
    /\ editor' = [editor EXCEPT !.draft = d, !.dirty = TRUE, !.timer = Armed(d)]
    /\ UNCHANGED authVars

\* PUT /notes/{id} of updateNote
UpdateRequest(id, payload) ==
    [route |-> "update", cookie |-> ValidCookie, id |-> [ok |-> TRUE, uuid |-> id],
     body |-> payload]

\* the timeout of the autosave effect fires: setIsSaving(true) and
\* updateNote(selectedId, toPayload(snapshot)), whose request reaches
\* requireSession
AutosaveFires(k, dbOk) ==
    /\ editor.open
    /\ editor.timer.armed
    /\ editor.started < MaxSaves
    /\ RequireSession(k, UpdateRequest(editor.selectedId, toPayload(editor.timer.snapshot)),
                      dbOk)
    /\ editor' = [editor EXCEPT
            !.timer = NoTimer,
            !.isSaving = TRUE,
            !.started = @ + 1,
            !.calls = @ \cup {[n |-> editor.started + 1,
                               snapshot |-> editor.timer.snapshot,
                               slot |-> IF resp'.status = 0 THEN k ELSE 0,
                               status |-> resp'.status]}]

\* handleUpdateNote serves the request of an updateNote call; its response
\* is on the way to the browser
AutosaveServed(k, dbOk) ==
    /\ editor.open
    /\ HandleUpdateNote(k, dbOk)
    /\ editor' = [editor EXCEPT !.calls =
            {IF c.slot = k THEN [c EXCEPT !.slot = 0, !.status = resp'.status] ELSE c :
                c \in editor.calls}]

\* the await of updateNote returns or throws: the rest of the timeout callback
AutosaveAnswered(c) ==
    /\ editor.open
    /\ c \in editor.calls
    /\ c.status # 0
    /\ IF c.status = 200 THEN
            IF isDraftEqual(c.snapshot, editor.draft)
            THEN editor' = [editor EXCEPT !.dirty = FALSE, !.timer = NoTimer,
                                          !.isSaving = FALSE, !.calls = @ \ {c}]
            ELSE editor' = [editor EXCEPT !.isSaving = FALSE, !.calls = @ \ {c}]
       ELSE IF c.status = 401 THEN
            \* handleUnauthorized: router.replace("/login")
            editor' = NoEditor
       ELSE editor' = [editor EXCEPT !.isSaving = FALSE, !.calls = @ \ {c}]
    /\ UNCHANGED authVars

\* note 1 is stored, one browser has it open in the editor
AutosaveInit ==
    /\ now = 0
    /\ sessions = {SessionRow(1, 0)}
    /\ rngUsed = {<<TokenChars[1]>>}
    /\ noteUuids = 1
    /\ notes = {NoteOf(1, EmptyBody, 0, 0)}
    /\ inflight = [k \in {1, 2} |-> Idle]
    /\ resp = Answer(NoRequest, "none", "none", 0, [kind |-> "none"], NoSetCookie)
    /\ dir = {InitSql}
    /\ ledgerTable = TRUE
    /\ ledger = {[name |-> InitSql.name, applied_at |-> 0]}
    /\ schema = (InitSql.name :> 1)
    /\ mig = [p \in {1} |-> [MigStopped EXCEPT !.pc = "done", !.names = <<InitSql.name>>,
                                               !.i = 2, !.executed = <<InitSql.name>>]]
    /\ editor = EditorOn(NoteOf(1, EmptyBody, 0, 0))

AutosaveNext ==
    \/ \E d \in Drafts : EditDraft(d) /\ UNCHANGED migVars
    \/ \E k \in Slots, dbOk \in BOOLEAN : AutosaveFires(k, dbOk) /\ UNCHANGED migVars
    \/ \E k \in Slots, dbOk \in BOOLEAN : AutosaveServed(k, dbOk) /\ UNCHANGED migVars
    \/ editor.open /\ \E c \in editor.calls : AutosaveAnswered(c) /\ UNCHANGED migVars
    \/ Tick /\ UNCHANGED <<migVars, editor>>

SpecAutosave == AutosaveInit /\ [][AutosaveNext]_vars

\* the editor shows no unsaved changes and no updateNote call is unanswered
EditorAtRest == editor.open /\ ~editor.dirty /\ editor.calls = {}

\* the selected note is stored with the payload of the current draft
DraftStored ==
    \E n \in notes : n.id = editor.selectedId /\ HoldsPayload(n, toPayload(editor.draft))

\* C30: whenever the editor shows no unsaved changes and no autosave
\* request is in flight, the note stored on the server equals the payload
\* of the current draft, also when two autosave requests were in flight
\* together and were committed or answered out of order.
C30_AutosaveConverges == EditorAtRest => DraftStored

\* the same for an editor that has started at most one autosave call
C30_OneCallConverges == EditorAtRest /\ editor.started <= 1 => DraftStored

\* an autosave was acknowledged, the editor is at rest and the stored
\* content is not the content of the draft
C30_OlderDraftStored ==
    /\ EditorAtRest
    /\ editor.started = 2
    /\ resp.by = "handler" /\ resp.status = 200
    /\ \E n \in notes : n.id = editor.selectedId /\ n.content # editor.draft.content

\* one autosave call, acknowledged: the draft is stored
C30_OneCallStored ==
    /\ EditorAtRest
    /\ editor.started = 1
    /\ editor.draft.content = <<"x">>
    /\ DraftStored

====
